---- MODULE Spec2Model ----
(***************************************************************************)
(* Model of the overlay core: the membership state machine                 *)
(* (prism/overlay/process_event.py), the side effects it triggers          *)
(* (prism/overlay/behaviour.py), the stats-fetch pipeline                  *)
(* (examples/overlay/threading.py) and the rate limiter exercised by       *)
(* tests/prism/test_ratelimiting.py.                                       *)
(***************************************************************************)
EXTENDS Integers, Sequences, FiniteSets, TLC

VARIABLES
    state,            \* controller.state: the OverlayState snapshot
    wants_shown,      \* controller.wants_shown
    redraw_event,     \* controller.redraw_event (threading.Event, level-triggered)
    redraw_sets,      \* number of redraw_event.set() calls made by process_loglines
    known_nicks,      \* controller.settings.known_nicks
    stored_settings,  \* the settings controller.store_settings() wrote last
    default_database, \* controller.nick_database.default_database
    player_cache,     \* short-term tier of controller.player_cache
    long_term_cache,  \* long-term tier of controller.player_cache
    api_key_invalid,  \* controller.api_key_invalid
    autodenick_teammates, \* controller.settings.autodenick_teammates
    last_event,       \* the event process_event handled last (NoEvent before any)
    last_redraw,      \* the redraw flag process_event returned last
    loglines,         \* the log lines handed to process_loglines
    lines_read,       \* how many of them its loop has read
    after_swap,       \* history: the event before last_event was a LOBBY_SWAP
    prev_lobby,       \* history: lobby_players before last_event (recorded by
                      \* SpecLobby)
    marks,            \* history: mark_dead / mark_alive applied since the lobby
                      \* was last replaced (recorded by SpecGame)
    hypixel_api_key,  \* controller.hypixel_api_key
    settings_hypixel_api_key, \* controller.settings.hypixel_api_key
    mutex,            \* state.mutex: the thread holding it, None when free
    requested_stats_queue, \* usernames waiting for a stats thread
    completed_stats_queue, \* usernames whose download has finished
    poll_pc,          \* per display thread: where it is in get_stat_list
    poll_redraw,      \* per display thread: the local redraw of should_redraw
    poll_popped,      \* per display thread: the username get_nowait returned
    poll_todo,        \* per display thread: lobby players its loop has left
    poll_cur,         \* per display thread: the player found missing
    worker_pc,        \* per stats thread: where it is in GetStatsThread.run
    worker_job,       \* per stats thread: the username it took off the queue
    pendings,         \* history: set_player_pending calls per username
    requests,         \* history: requested_stats_queue.put calls per username
    looked_up,        \* history: per display thread, the usernames it has
                      \* looked up with get_cached_stats
    evictions,        \* history: calls that evicted cache entries
    evicted,          \* history: per username, evictions of its entry made
                      \* while a download of it was outstanding
    clock,            \* time.monotonic()
    made_requests,    \* RateLimiter.made_requests: timestamps, oldest first
    available_slots,  \* RateLimiter.available_slots: free slots
    caller_pc,        \* per thread: where it is in the with block
    caller_old,       \* per thread: the timestamp __enter__ took
    late_request,     \* history: some __enter__ was called after t=0
    grants,           \* history: the instants the with blocks began
    exits,            \* history: the instants of the calls of __exit__
    requested_at,     \* history: per thread, the instant it called __enter__,
                      \* -1 before (recorded by SpecLimiterWaits)
    new_limit,        \* the limit handed to RateLimiter(limit, window)
    new_window,       \* the window handed to it
    new_result,       \* what the call came to, <<>> before the call
    assignments,      \* history: the set_nickname(username, nick) calls made
                      \* (recorded by SpecAutodenick)
    failed,           \* history: the usernames whose download raised and that
                      \* were not requested again (recorded by SpecRetry)
    nick_pc,          \* where the thread in set_nickname is
    nick_call,        \* the locals of set_nickname: username, nick, uuid and
                      \* known_nicks as the settings block found it
    lock_owner,       \* the thread holding each lock, None when it is free
    lock_pc,          \* each thread's with blocks: the lock operations it is
                      \* running and the one it is at
    sort_call,        \* sort_players: the arguments of the call and, once it
                      \* has returned, the list it returned
    redraw_call,      \* should_redraw (prism/overlay/behaviour.py): where the
                      \* call is, its locals, what it returned, and what the
                      \* signal, the queue and the lobby were on its way
    fast_forward,     \* the state and the redraw event of a controller like
                      \* this one that fast_forward_state reads the lines to
    seen,             \* history: the queue signals read since the queue was
                      \* last reset, and the party role lists read since
                      \* PARTY_LIST_INCOMING (recorded by SpecQueue, SpecParty)
    notices,          \* history: per username, the downloads cached, the
                      \* completion notices put, the winstreaks filled in, and
                      \* the usernames an entry of which was evicted
                      \* (recorded by SpecWinstreak)
    drawn,            \* process_loglines between the assignment of
                      \* controller.state and redraw_event.set(), the number of
                      \* redraw transitions applied, and the number the list
                      \* built last had seen (SpecDisplay)
    log_call          \* the thread reading the log inside process_event: the
                      \* event it handles and the uuid controller.get_uuid
                      \* answered (SpecNetwork)

memVars == <<state, wants_shown, redraw_event, redraw_sets, known_nicks,
             stored_settings,
             default_database, player_cache, long_term_cache, api_key_invalid,
             autodenick_teammates, last_event, last_redraw, loglines, lines_read,
             after_swap,
             prev_lobby, marks>>

fetchVars == <<hypixel_api_key,
               settings_hypixel_api_key, mutex, requested_stats_queue,
               completed_stats_queue, poll_pc, poll_redraw, poll_popped,
               poll_todo, poll_cur, worker_pc, worker_job, pendings, requests,
               looked_up, evictions, evicted>>

limVars == <<clock, made_requests, available_slots, caller_pc, caller_old,
             late_request, grants, exits, requested_at>>

nickVars == <<nick_pc, nick_call>>

lockVars == <<lock_owner, lock_pc>>

callVars == <<sort_call, redraw_call, fast_forward, seen, notices, drawn,
             log_call>>

auxVars == <<new_limit, new_window, new_result, assignments, failed, nickVars,
             lockVars, callVars>>

-----------------------------------------------------------------------------
(* Identities *)

None == "None"

\* identities of the players seen in lobby, party and game messages
Usernames == {"A", "B"}

\* identities of the players of the larger lobbies (lobby messages only)
LobbyUsernames == {"A", "B", "C", "D"}

\* accounts the client logs in as
OwnUsernames == {"A"}

Nicks == {"N"}

\* the other players of a full lobby of eight
MorePlayers == {"E", "F", "G"}

\* party members that may be missing from the lobby
Teammates == {"T", "U"}

Identities == LobbyUsernames \cup Nicks \cup MorePlayers \cup Teammates

\* largest player count a join message reports
MaxCount == 3

\* player caps of the game modes seen in join messages
PlayerCaps == {7, 8}

\* threads running get_stat_list
Pollers == {"display1", "display2"}

\* the GetStatsThread instances
Workers == {"stats1", "stats2"}

\* the API key the overlay starts with and the ones the user may set
InitialKey == "invalid-key"

NewKeys == {"my-new-key"}

-----------------------------------------------------------------------------
(* OverlayState and its functional updates (prism/overlay/state.py) *)

EmptyState ==
    [own_username |-> None, party_members |-> {}, lobby_players |-> {},
     alive_players |-> {}, in_queue |-> FALSE, out_of_sync |-> FALSE]

join_queue(s) == [s EXCEPT !.in_queue = TRUE]

leave_queue(s) == [s EXCEPT !.in_queue = FALSE]

set_out_of_sync(s, flag) == [s EXCEPT !.out_of_sync = flag]

set_lobby(s, new_lobby) ==
    [s EXCEPT !.lobby_players = new_lobby, !.alive_players = new_lobby]

clear_lobby(s) == set_lobby(s, {})

add_to_lobby(s, username) ==
    [s EXCEPT !.lobby_players = @ \cup {username},
              !.alive_players = @ \cup {username}]

remove_from_lobby(s, username) ==
    [s EXCEPT !.lobby_players = @ \ {username},
              !.alive_players = @ \ {username}]

mark_dead(s, username) == [s EXCEPT !.alive_players = @ \ {username}]

mark_alive(s, username) == [s EXCEPT !.alive_players = @ \cup {username}]

\* "remove all but yourself from the party"
clear_party(s) ==
    [s EXCEPT !.party_members =
        IF s.own_username = None THEN {} ELSE {s.own_username}]

add_to_party(s, username) == [s EXCEPT !.party_members = @ \cup {username}]

remove_from_party(s, username) == [s EXCEPT !.party_members = @ \ {username}]

\* for username in usernames: new_state = new_state.add_to_party(username)
RECURSIVE add_all_to_party(_, _)
add_all_to_party(s, usernames) ==
    IF usernames = {} THEN s
    ELSE LET u == CHOOSE x \in usernames : TRUE
         IN add_all_to_party(add_to_party(s, u), usernames \ {u})

\* for username in usernames: new_state = new_state.remove_from_party(username)
RECURSIVE remove_all_from_party(_, _)
remove_all_from_party(s, usernames) ==
    IF usernames = {} THEN s
    ELSE LET u == CHOOSE x \in usernames : TRUE
         IN remove_all_from_party(remove_from_party(s, u), usernames \ {u})

-----------------------------------------------------------------------------
(* Events (prism/overlay/events.py), in one record shape *)

Ev(t, u, us, n, c, cap) ==
    [type |-> t, username |-> u, usernames |-> us, nick |-> n,
     player_count |-> c, player_cap |-> cap]

NoEvent == Ev("NONE", None, {}, None, 0, 0)

Plain(t) == Ev(t, None, {}, None, 0, 0)

ByUser(t, u) == Ev(t, u, {}, None, 0, 0)

ByUsers(t, us) == Ev(t, None, us, None, 0, 0)

\* what the lobby and game messages about the players `names` parse to
LobbyEventsOf(names) ==
    {ByUser("INITIALIZE_AS", u) : u \in OwnUsernames}
    \cup {Plain("LOBBY_SWAP")}
    \cup {ByUsers("LOBBY_LIST", us) : us \in SUBSET names}
    \cup {Ev("LOBBY_JOIN", u, {}, None, c, cap) :
            u \in names, c \in 0..MaxCount,
            cap \in PlayerCaps}
    \cup {ByUser("LOBBY_LEAVE", u) : u \in names}
    \cup {Plain("BEDWARS_GAME_STARTING_SOON")}
    \cup {Plain("START_BEDWARS_GAME")}
    \cup {Plain("END_BEDWARS_GAME")}

\* what the in-game messages about the players `names` parse to
GameEventsOf(names) ==
    {ByUser("BEDWARS_FINAL_KILL", u) : u \in names}
    \cup {ByUser("BEDWARS_DISCONNECT", u) : u \in names}
    \cup {ByUser("BEDWARS_RECONNECT", u) : u \in names}

PartyLists == SUBSET Usernames \ {{}}

\* what the party and nickname messages parse to
PartyEvents ==
    {Ev("NEW_NICKNAME", None, {}, n, 0, 0) : n \in Nicks}
    \cup {Plain("PARTY_DETACH")}
    \cup {ByUser("PARTY_ATTACH", u) : u \in Usernames}
    \cup {ByUsers("PARTY_JOIN", us) : us \in PartyLists}
    \cup {ByUsers("PARTY_LEAVE", us) : us \in PartyLists}
    \cup {Plain("PARTY_LIST_INCOMING")}
    \cup {ByUsers("PARTY_ROLE_LIST", us) : us \in PartyLists}
    \cup {Ev("WHISPER_COMMAND_SET_NICK", u, {}, n, 0, 0) :
            u \in Usernames, n \in Nicks}

GameEvents == LobbyEventsOf(Usernames) \cup GameEventsOf(Usernames)

Events == GameEvents \cup PartyEvents

LobbyEvents == LobbyEventsOf(LobbyUsernames)

-----------------------------------------------------------------------------
(* process_event, one operator per event kind: the returned state *)

\* OnInitializeAs with the party cleared before the own username is set
OnInitializeAs_PartyOfOldUser(s, e) ==
    clear_lobby([clear_party(s) EXCEPT !.own_username = e.username,
                                       !.in_queue = FALSE,
                                       !.out_of_sync = FALSE])

OnInitializeAs(s, e) ==
    clear_lobby(clear_party(
        [s EXCEPT !.own_username = e.username, !.in_queue = FALSE,
                  !.out_of_sync = FALSE]))


\* OnLobbySwap leaving the queue without clearing the lobby
OnLobbySwap_NoClear(s, e) == leave_queue(s)

OnLobbySwap(s, e) == leave_queue(clear_lobby(s))

\* OnLobbyList leaving out_of_sync as it is
OnLobbyList_KeepsFlag(s, e) == set_lobby(s, e.usernames)

OnLobbyList(s, e) == set_lobby(set_out_of_sync(s, FALSE), e.usernames)

\* the gamemode filter of LOBBY_JOIN
\* LOBBY_JOIN skipping lobbies of fewer than seven only
TooFewPlayers_BelowSeven(e) == e.player_cap < 7

TooFewPlayers(e) == e.player_cap < 8


\* OnLobbyJoin resetting the lobby whenever the reported count differs
OnLobbyJoin_ResetOnAnyMismatch(s, e) ==
    IF TooFewPlayers(e) THEN s
    ELSE LET joined == add_to_lobby(join_queue(s), e.username)
             mismatch == e.player_count # Cardinality(joined.lobby_players)
             new_state == IF mismatch
                          THEN add_to_lobby(clear_lobby(joined), e.username)
                          ELSE joined
             out_of_sync ==
                 e.player_count # Cardinality(new_state.lobby_players)
         IN set_out_of_sync(new_state, out_of_sync)

\* OnLobbyJoin comparing the reported count with the lobby before the join
OnLobbyJoin_CountBeforeAdd(s, e) ==
    IF TooFewPlayers(e) THEN s
    ELSE LET joined == add_to_lobby(join_queue(s), e.username)
             too_many == e.player_count < Cardinality(s.lobby_players)
             new_state == IF too_many
                          THEN add_to_lobby(clear_lobby(joined), e.username)
                          ELSE joined
         IN set_out_of_sync(new_state,
                e.player_count # Cardinality(s.lobby_players))

\* OnLobbyJoin with out_of_sync not evaluated again after the lobby is reset
OnLobbyJoin_NoRecheck(s, e) ==
    IF TooFewPlayers(e) THEN s
    ELSE LET joined == add_to_lobby(join_queue(s), e.username)
             too_many == e.player_count < Cardinality(joined.lobby_players)
             new_state == IF too_many
                          THEN add_to_lobby(clear_lobby(joined), e.username)
                          ELSE joined
         IN set_out_of_sync(new_state,
                e.player_count # Cardinality(joined.lobby_players))

OnLobbyJoin(s, e) ==
    IF TooFewPlayers(e) THEN s
    ELSE LET joined == add_to_lobby(join_queue(s), e.username)
             too_many == e.player_count < Cardinality(joined.lobby_players)
             new_state == IF too_many
                          THEN add_to_lobby(clear_lobby(joined), e.username)
                          ELSE joined
             out_of_sync ==
                 e.player_count # Cardinality(new_state.lobby_players)
         IN set_out_of_sync(new_state, out_of_sync)

\* OnLobbyLeave without join_queue
OnLobbyLeave_NoQueue(s, e) == remove_from_lobby(s, e.username)

OnLobbyLeave(s, e) == remove_from_lobby(join_queue(s), e.username)


\* OnPartyDetach emptying the party, own username included
OnPartyDetach_Empty(s, e) == [s EXCEPT !.party_members = {}]

OnPartyDetach(s, e) == clear_party(s)

OnPartyAttach(s, e) == add_to_party(clear_party(s), e.username)

OnPartyJoin(s, e) == add_all_to_party(s, e.usernames)


\* OnPartyLeave without the check for the own username
OnPartyLeave_NoOwnCheck(s, e) == remove_all_from_party(s, e.usernames)

OnPartyLeave(s, e) ==
    IF s.own_username \in e.usernames
    THEN clear_party(s)
    ELSE remove_all_from_party(s, e.usernames)

\* PARTY_LIST_INCOMING keeping the party it finds
OnPartyListIncoming_KeepsParty(s, e) == s

OnPartyListIncoming(s, e) == clear_party(s)

OnPartyRoleList(s, e) == add_all_to_party(s, e.usernames)

OnStartBedwarsGame(s, e) == leave_queue(s)


\* OnBedwarsFinalKill marking the player alive instead of dead
OnBedwarsFinalKill_Alive(s, e) == mark_alive(s, e.username)

OnBedwarsFinalKill(s, e) == mark_dead(s, e.username)

\* OnBedwarsDisconnect taking the player out of the lobby
OnBedwarsDisconnect_LeavesLobby(s, e) == remove_from_lobby(s, e.username)

OnBedwarsDisconnect(s, e) == mark_dead(s, e.username)

OnBedwarsReconnect(s, e) == mark_alive(s, e.username)

OnEndBedwarsGame(s, e) == clear_lobby(s)

Result(s, r) == [state |-> s, redraw |-> r]

\* process_event(controller, event) -> (state, redraw)
process_event(s, e) ==
    CASE e.type = "INITIALIZE_AS" -> Result(OnInitializeAs(s, e), TRUE)
      [] e.type = "NEW_NICKNAME" -> Result(s, FALSE)
      [] e.type = "LOBBY_SWAP" -> Result(OnLobbySwap(s, e), TRUE)
      [] e.type = "LOBBY_LIST" -> Result(OnLobbyList(s, e), TRUE)
      [] e.type = "LOBBY_JOIN" ->
            Result(OnLobbyJoin(s, e), ~TooFewPlayers(e))
      [] e.type = "LOBBY_LEAVE" -> Result(OnLobbyLeave(s, e), TRUE)
      [] e.type = "PARTY_DETACH" -> Result(OnPartyDetach(s, e), TRUE)
      [] e.type = "PARTY_ATTACH" -> Result(OnPartyAttach(s, e), TRUE)
      [] e.type = "PARTY_JOIN" -> Result(OnPartyJoin(s, e), TRUE)
      [] e.type = "PARTY_LEAVE" -> Result(OnPartyLeave(s, e), TRUE)
      [] e.type = "PARTY_LIST_INCOMING" ->
            Result(OnPartyListIncoming(s, e), FALSE)
      [] e.type = "PARTY_ROLE_LIST" -> Result(OnPartyRoleList(s, e), TRUE)
      [] e.type = "BEDWARS_GAME_STARTING_SOON" -> Result(s, FALSE)
      [] e.type = "START_BEDWARS_GAME" ->
            Result(OnStartBedwarsGame(s, e), FALSE)
      [] e.type = "BEDWARS_FINAL_KILL" ->
            Result(OnBedwarsFinalKill(s, e), TRUE)
      [] e.type = "BEDWARS_DISCONNECT" ->
            Result(OnBedwarsDisconnect(s, e), TRUE)
      [] e.type = "BEDWARS_RECONNECT" ->
            Result(OnBedwarsReconnect(s, e), TRUE)
      [] e.type = "END_BEDWARS_GAME" -> Result(OnEndBedwarsGame(s, e), TRUE)
      [] e.type = "WHISPER_COMMAND_SET_NICK" -> Result(s, FALSE)

\* controller.wants_shown after process_event(e) ran on state s
wants_shown_after(s, e, shown) ==
    CASE e.type \in {"LOBBY_SWAP", "START_BEDWARS_GAME"} -> None
      [] e.type = "LOBBY_LIST" -> IF ~s.in_queue THEN "True" ELSE None
      [] e.type = "LOBBY_JOIN" /\ ~TooFewPlayers(e) ->
            IF ~s.in_queue THEN None ELSE shown
      [] e.type = "LOBBY_LEAVE" -> IF ~s.in_queue THEN None ELSE shown
      [] OTHER -> shown

-----------------------------------------------------------------------------
(* PlayerCache (prism/overlay/player_cache.py) *)

Missing == "Missing"

EmptyCache == [id \in Identities |-> Missing]

uncache_player(cache, id) == [cache EXCEPT ![id] = Missing]

clear_cache(cache) == EmptyCache

-----------------------------------------------------------------------------
(* set_nickname and autodenick_teammate (prism/overlay/behaviour.py) *)

NoNickValue == [uuid |-> None, comment |-> None]

NoKnownNicks == [n \in Identities |-> NoNickValue]

NoDatabase == [n \in Identities |-> None]

\* controller.store_settings(): what is written, given the settings in memory
store_settings(nicks, key) == [known_nicks |-> nicks, hypixel_api_key |-> key]

\* the search of settings.known_nicks finding nothing
NickOfUuid_None(nicks, uuid) == None

\* the nick settings.known_nicks holds for uuid, None when there is none
NickOfUuid(nicks, uuid) ==
    IF \E n \in Identities : nicks[n].uuid = uuid
    THEN CHOOSE n \in Identities : nicks[n].uuid = uuid
    ELSE None

\* set_nickname(username, nick), uuid being what controller.get_uuid returned:
\* the tables and caches it leaves behind
set_nickname(username, nick, uuid, nicks, database, cache, long_term) ==
    LET setting == uuid # None /\ username # None
        found == IF setting THEN NickOfUuid(nicks, uuid) ELSE None
        old_nick == IF setting THEN found ELSE nick
        new_nick_value ==
            IF ~setting THEN NoNickValue
            ELSE IF found # None THEN nicks[found]
            ELSE [uuid |-> uuid, comment |-> username]
        popped == IF old_nick # None
                  THEN [nicks EXCEPT ![old_nick] = NoNickValue]
                  ELSE nicks
        dropped == IF old_nick # None
                   THEN [database EXCEPT ![old_nick] = None]
                   ELSE database
        evict(c) == uncache_player(
                        IF old_nick # None THEN uncache_player(c, old_nick)
                        ELSE c, nick)
    IN [known_nicks |-> IF setting
                        THEN [popped EXCEPT ![nick] = new_nick_value]
                        ELSE popped,
        default_database |-> IF uuid # None
                             THEN [dropped EXCEPT ![nick] = uuid]
                             ELSE dropped,
        player_cache |-> evict(cache),
        long_term_cache |-> evict(long_term)]

NoCall == [call |-> FALSE, username |-> None, nick |-> None]

\* autodenick_teammate without the check for a second unknown nick
autodenick_teammate_AnyNick(s, long_term, invalid) ==
    LET missing_teammates == s.party_members \ s.lobby_players
        lobby_size == Cardinality(s.lobby_players)
        nicked == {p \in s.lobby_players : long_term[p] = "Nicked"}
    IN IF \/ invalid \/ s.in_queue \/ s.out_of_sync
          \/ Cardinality(missing_teammates) # 1
          \/ lobby_size \notin {8, 12, 16}
          \/ s.lobby_players # s.alive_players
          \/ \E p \in s.lobby_players : long_term[p] \in {Missing, "Pending"}
          \/ nicked = {}
       THEN NoCall
       ELSE [call |-> TRUE,
             username |-> CHOOSE t \in missing_teammates : TRUE,
             nick |-> CHOOSE p \in nicked : TRUE]

\* autodenick_teammate going on while the state is in queue
autodenick_teammate_InQueue(s, long_term, invalid) ==
    LET missing_teammates == s.party_members \ s.lobby_players
        lobby_size == Cardinality(s.lobby_players)
        nicked == {p \in s.lobby_players : long_term[p] = "Nicked"}
    IN IF \/ invalid \/ s.out_of_sync
          \/ Cardinality(missing_teammates) # 1
          \/ lobby_size \notin {8, 12, 16}
          \/ s.lobby_players # s.alive_players
          \/ \E p \in s.lobby_players : long_term[p] \in {Missing, "Pending"}
          \/ Cardinality(nicked) # 1
       THEN NoCall
       ELSE [call |-> TRUE,
             username |-> CHOOSE t \in missing_teammates : TRUE,
             nick |-> CHOOSE p \in nicked : TRUE]

\* autodenick_teammate(controller): the set_nickname call it ends in, if any
autodenick_teammate(s, long_term, invalid) ==
    LET missing_teammates == s.party_members \ s.lobby_players
        lobby_size == Cardinality(s.lobby_players)
        nicked == {p \in s.lobby_players : long_term[p] = "Nicked"}
    IN IF \/ invalid \/ s.in_queue \/ s.out_of_sync
          \/ Cardinality(missing_teammates) # 1
          \/ lobby_size \notin {8, 12, 16}
          \/ s.lobby_players # s.alive_players
          \/ \E p \in s.lobby_players : long_term[p] \in {Missing, "Pending"}
          \/ Cardinality(nicked) # 1
       THEN NoCall
       ELSE [call |-> TRUE,
             username |-> CHOOSE t \in missing_teammates : TRUE,
             nick |-> CHOOSE p \in nicked : TRUE]

\* the set_nickname call process_event(e) makes on state s, if any
set_nickname_call(s, e, long_term, invalid, autodenick) ==
    CASE e.type = "NEW_NICKNAME" /\ s.own_username # None ->
            [call |-> TRUE, username |-> s.own_username, nick |-> e.nick]
      [] e.type = "WHISPER_COMMAND_SET_NICK" ->
            [call |-> TRUE, username |-> e.username, nick |-> e.nick]
      [] e.type = "START_BEDWARS_GAME" /\ autodenick ->
            autodenick_teammate(s, long_term, invalid)
      [] OTHER -> NoCall

\* controller.get_uuid(username): a remote lookup that may fail (None)
get_uuid_results(username) ==
    IF username = None THEN {None} ELSE {username, None}

-----------------------------------------------------------------------------
(* RateLimiter (prism/ratelimiting.py), as tests/prism/test_ratelimiting.py
   uses it: a context manager, its clock the monotonic time of the tests *)

\* RateLimiter(limit=2, window=10)
limit == 2

window == 10

\* threads entering the limiter, each once
Callers == {"c1", "c2", "c3", "c4"}

\* last instant of the clock
MaxTime == 12

\* made_requests at construction, at time 0: limit timestamps a window old
initial_requests == [i \in 1..limit |-> 0 - window]

\* __enter__: the instant the slot freed at old_request may be used again
wake_time_NoWait(old_request) == old_request

wake_time_Short(old_request) == old_request + window - 1

wake_time_Late(old_request) == old_request + window + 1

wake_time(old_request) == old_request + window

-----------------------------------------------------------------------------
(* The log-consuming thread *)

\* controller.state, redraw = process_event(controller, event), with what
\* process_event does to the controller on the way; signal says whether the
\* caller sets redraw_event when redraw is returned, answers are the uuids
\* controller.get_uuid may answer with
ApplyEventGiven(e, signal, answers) ==
    LET r == process_event(state, e)
        c == set_nickname_call(state, e, long_term_cache, api_key_invalid,
                               autodenick_teammates)
    IN /\ state' = r.state
       /\ last_redraw' = r.redraw
       /\ last_event' = e
       /\ after_swap' = (last_event.type = "LOBBY_SWAP")
       /\ wants_shown' = wants_shown_after(state, e, wants_shown)
       /\ redraw_event' = (redraw_event \/ c.call \/ (signal /\ r.redraw))
       /\ IF c.call
          THEN \E uuid \in get_uuid_results(c.username) \cap answers :
                 LET t == set_nickname(c.username, c.nick, uuid, known_nicks,
                                       default_database, player_cache,
                                       long_term_cache)
                 IN /\ known_nicks' = t.known_nicks
                    /\ stored_settings' =
                           store_settings(t.known_nicks,
                                          settings_hypixel_api_key)
                    /\ default_database' = t.default_database
                    /\ player_cache' = t.player_cache
                    /\ long_term_cache' = t.long_term_cache
          ELSE UNCHANGED <<known_nicks,
                           stored_settings, default_database, player_cache,
                           long_term_cache>>
       /\ UNCHANGED <<api_key_invalid, autodenick_teammates>>

\* process_event with controller.get_uuid answering as it may
ApplyEvent(e, signal) == ApplyEventGiven(e, signal, Identities \cup {None})

\* process_loglines on a live log: the next line parses to any event of evs
ReadLogline(evs) ==
    \E e \in evs :
        /\ ApplyEvent(e, TRUE)
        /\ UNCHANGED <<redraw_sets, loglines, lines_read, prev_lobby, marks>>
        /\ UNCHANGED <<fetchVars, limVars, auxVars>>

\* ReadLogline, with the lobby before the event kept
ReadLobbyLogline(evs) ==
    \E e \in evs :
        /\ ApplyEvent(e, TRUE)
        /\ prev_lobby' = state.lobby_players
        /\ UNCHANGED <<redraw_sets, loglines, lines_read, marks>>
        /\ UNCHANGED <<fetchVars, limVars, auxVars>>

\* process_event(e) on state s replaces lobby_players and alive_players by
\* one and the same set (set_lobby, clear_lobby)
ReplacesLobby(s, e) ==
    \/ e.type \in {"INITIALIZE_AS", "LOBBY_SWAP", "LOBBY_LIST",
                   "END_BEDWARS_GAME"}
    \/ /\ e.type = "LOBBY_JOIN"
       /\ ~TooFewPlayers(e)
       /\ e.player_count < Cardinality(s.lobby_players \cup {e.username})

marks_after(s, e, m) ==
    IF ReplacesLobby(s, e) THEN {}
    ELSE CASE e.type \in {"BEDWARS_FINAL_KILL", "BEDWARS_DISCONNECT"} ->
                m \cup {"mark_dead"}
           [] e.type = "BEDWARS_RECONNECT" -> m \cup {"mark_alive"}
           [] OTHER -> m

\* ReadLogline, with the history of marks kept
ReadGameLogline(evs) ==
    \E e \in evs :
        /\ ApplyEvent(e, TRUE)
        /\ marks' = marks_after(state, e, marks)
        /\ UNCHANGED <<redraw_sets, loglines, lines_read, prev_lobby>>
        /\ UNCHANGED <<fetchVars, limVars, auxVars>>

\* state.mutex, settings.mutex, nick_database.mutex and the lock of the
\* player cache
Locks == {"state", "settings", "nick_database", "cache"}

\* the thread reading the log, the settings page and the display thread
LockThreads == {"update_state", "settings_page", "display"}

\* a thread outside its with blocks
Resting == [ops |-> <<>>, at |-> 1]

\* nothing read yet
NothingSeen == [signals |-> {}, listing |-> FALSE, listed |-> {}]

\* nothing downloaded yet
NoNotices ==
    [fetched |-> [id \in Identities |-> 0],
     noticed |-> [id \in Identities |-> 0],
     backfilled |-> [id \in Identities |-> 0],
     renoticed |-> [id \in Identities |-> 0],
     evicted |-> {}]

\* no transition applied, no list built
NothingDrawn == [pc |-> "idle", applied |-> 0, built |-> 0]

\* the thread reading the log is between two events
NoLogCall == [pc |-> "idle", event |-> NoEvent, uuid |-> None]

\* should_redraw not called yet
NoRedrawCall ==
    [pc |-> "idle", redraw |-> FALSE, username |-> None, result |-> FALSE,
     set_at_call |-> FALSE, in_lobby |-> FALSE, queued_at_call |-> 0]

\* no call of sort_players made yet
NoSortCall ==
    [players |-> <<>>, party_members |-> {}, column |-> "username",
     returned |-> FALSE, result |-> <<>>]

\* the locals of set_nickname outside a call
NoNickCall ==
    [username |-> None, nick |-> None, uuid |-> None, nicks |-> NoKnownNicks]

\* the controller before any line is read, given its state, its cache (both
\* tiers), its flag for an invalid key and its autodenick setting
InitController(lines, s, cache, invalid, autodenick) ==
    /\ loglines = lines
    /\ lines_read = 0
    /\ state = s
    /\ wants_shown = None
    /\ redraw_event = FALSE
    /\ redraw_sets = 0
    /\ known_nicks = NoKnownNicks
    /\ stored_settings = store_settings(NoKnownNicks, InitialKey)
    /\ default_database = NoDatabase
    /\ player_cache = cache
    /\ long_term_cache = cache
    /\ api_key_invalid = invalid
    /\ autodenick_teammates = autodenick
    /\ last_event = NoEvent
    /\ last_redraw = FALSE
    /\ after_swap = FALSE
    /\ prev_lobby = {}
    /\ marks = {}

\* the threads, the queues and the limiter before anything has run
InitThreads ==
    /\ hypixel_api_key = InitialKey
    /\ settings_hypixel_api_key = InitialKey
    /\ mutex = None
    /\ requested_stats_queue = <<>>
    /\ completed_stats_queue = <<>>
    /\ poll_pc = [p \in Pollers |-> "idle"]
    /\ poll_redraw = [p \in Pollers |-> FALSE]
    /\ poll_popped = [p \in Pollers |-> None]
    /\ poll_todo = [p \in Pollers |-> {}]
    /\ poll_cur = [p \in Pollers |-> None]
    /\ worker_pc = [w \in Workers |-> "idle"]
    /\ worker_job = [w \in Workers |-> None]
    /\ pendings = [id \in Identities |-> 0]
    /\ requests = [id \in Identities |-> 0]
    /\ looked_up = [p \in Pollers |-> {}]
    /\ evictions = 0
    /\ evicted = [id \in Identities |-> 0]
    /\ clock = 0
    /\ made_requests = initial_requests
    /\ available_slots = limit
    /\ caller_pc = [c \in Callers |-> "idle"]
    /\ caller_old = [c \in Callers |-> 0]
    /\ late_request = FALSE
    /\ grants = <<>>
    /\ exits = <<>>
    /\ requested_at = [c \in Callers |-> 0 - 1]
    /\ new_result = <<>>
    /\ assignments = <<>>
    /\ failed = {}
    /\ nick_pc = "idle"
    /\ nick_call = NoNickCall
    /\ lock_owner = [l \in Locks |-> None]
    /\ lock_pc = [t \in LockThreads |-> Resting]
    /\ sort_call = NoSortCall
    /\ redraw_call = NoRedrawCall
    /\ fast_forward = [state |-> state, redraw_event |-> redraw_event]
    /\ seen = NothingSeen
    /\ notices = NoNotices
    /\ drawn = NothingDrawn
    /\ log_call = NoLogCall

InitWith(lines) ==
    /\ InitController(lines, EmptyState, EmptyCache, FALSE, TRUE)
    /\ InitThreads

vars == <<memVars, fetchVars, limVars, auxVars>>

\* the limiter of the model is RateLimiter(limit, window)
Init ==
    /\ InitWith(<<>>)
    /\ new_limit = limit
    /\ new_window = window

-----------------------------------------------------------------------------
(* Spec: the membership state machine under every kind of event *)

Next == ReadLogline(Events)

Spec == Init /\ [][Next]_vars

(* SpecLobby: the queue of a lobby of four, lobby events only *)

NextLobby == ReadLobbyLogline(LobbyEvents)

SpecLobby == Init /\ [][NextLobby]_vars

(* SpecGame: lobby and in-game events, with the history of marks *)

NextGame == ReadGameLogline(GameEvents)

SpecGame == Init /\ [][NextGame]_vars

-----------------------------------------------------------------------------
(* Log lines and their lexer (prism/overlay/parsing.py) *)

\* most lines process_loglines is handed in one call
MaxLines == 3

Line(channel, text, numbers) ==
    [channel |-> channel, text |-> text, numbers |-> numbers]

\* "[CHAT] Player1 has joined (1/16)!"
JoinLine(username, count, cap) ==
    Line("CHAT", <<username, "has joined">>, <<count, cap>>)

\* "[CHAT] [MVP+] Player1: hows ur day?"
ChatLine == Line("CHAT", <<"[MVP+] Player1:", "hows ur day?">>, <<>>)

\* "Setting user: Me"
SettingUserLine(username) == Line("INFO", <<"Setting user:", username>>, <<>>)

\* "[CHAT] Party Moderators: Player1 * [MVP+] Player2 * "
PartyModeratorsLine(first, second) ==
    Line("CHAT", <<"Party Moderators:", first, second>>, <<>>)

\* parse_logline(line): the event of the line, NoEvent for None
parse_logline(line) ==
    CASE /\ line.channel = "CHAT" /\ Len(line.text) = 2
         /\ line.text[2] = "has joined" /\ Len(line.numbers) = 2 ->
            Ev("LOBBY_JOIN", line.text[1], {}, None,
               line.numbers[1], line.numbers[2])
      [] /\ line.channel = "INFO" /\ Len(line.text) = 2
         /\ line.text[1] = "Setting user:" ->
            ByUser("INITIALIZE_AS", line.text[2])
      [] /\ line.channel = "CHAT" /\ Len(line.text) = 3
         /\ line.text[1] = "Party Moderators:" ->
            ByUsers("PARTY_ROLE_LIST", {line.text[2], line.text[3]})
      [] /\ line.channel = "CHAT" /\ Len(line.text) = 2
         /\ line.text[1] = "You are now nicked as" ->
            Ev("NEW_NICKNAME", None, {}, line.text[2], 0, 0)
      [] OTHER -> NoEvent

LogLines ==
    {JoinLine("A", 1, 16), JoinLine("B", 2, 16), JoinLine("C", 3, 16),
     ChatLine, SettingUserLine("A"), PartyModeratorsLine("A", "B")}

LogLineBatches ==
    UNION {[1..n -> LogLines] : n \in 0..MaxLines}

\* one round of the loop of process_loglines, on the controller
process_loglines ==
    /\ lines_read < Len(loglines)
    /\ lines_read' = lines_read + 1
    /\ LET event == parse_logline(loglines[lines_read + 1])
       IN IF event = NoEvent
          THEN UNCHANGED <<state, wants_shown, redraw_event, redraw_sets,
                           known_nicks,
                           stored_settings, default_database, player_cache,
                           long_term_cache, api_key_invalid,
                           autodenick_teammates, last_event, last_redraw,
                           after_swap>>
          ELSE /\ ApplyEvent(event, TRUE)
               /\ redraw_sets' = IF process_event(state, event).redraw
                                 THEN redraw_sets + 1
                                 ELSE redraw_sets
    /\ UNCHANGED <<loglines, prev_lobby, marks>>
    /\ UNCHANGED <<fetchVars, limVars>>

\* one round of the loop of process_loglines
ProcessLogline == process_loglines /\ UNCHANGED auxVars

(* SpecLoglines: process_loglines on every batch of up to MaxLines lines *)

InitLoglines ==
    /\ \E lines \in LogLineBatches : InitWith(lines)
    /\ new_limit = limit
    /\ new_window = window

SpecLoglines == InitLoglines /\ [][ProcessLogline]_vars

(* SpecQueue, SpecParty: the log read event by event, with the history of
   the queue signals and of the party listing kept *)

\* the events that reset the queue: in_queue=False whatever it was
QueueResets == {"INITIALIZE_AS", "LOBBY_SWAP", "START_BEDWARS_GAME"}

\* seen, after event e is read
seen_after(e, h) ==
    [signals |->
        IF e.type \in QueueResets THEN {}
        ELSE IF \/ e.type = "LOBBY_JOIN" /\ e.player_cap >= 8
                \/ e.type = "LOBBY_LEAVE"
             THEN h.signals \cup {e.type}
             ELSE h.signals,
     listing |->
        \/ e.type = "PARTY_LIST_INCOMING"
        \/ e.type = "PARTY_ROLE_LIST" /\ h.listing,
     listed |->
        IF e.type = "PARTY_ROLE_LIST" /\ h.listing
        THEN h.listed \cup e.usernames
        ELSE {}]

\* ReadLogline, with the history of signals and lists kept
ReadSeenLogline(evs) ==
    \E e \in evs :
        /\ ApplyEvent(e, TRUE)
        /\ seen' = seen_after(e, seen)
        /\ UNCHANGED <<redraw_sets, loglines, lines_read, prev_lobby, marks>>
        /\ UNCHANGED <<fetchVars, limVars>>
        /\ UNCHANGED <<new_limit, new_window, new_result, assignments, failed,
                       nickVars, lockVars, sort_call, redraw_call,
                       fast_forward, notices, drawn, log_call>>

SpecQueue == Init /\ [][ReadSeenLogline(GameEvents)]_vars

PartyListEvents ==
    PartyEvents
    \cup {ByUser("INITIALIZE_AS", u) : u \in OwnUsernames}
    \cup {ByUsers("PARTY_ROLE_LIST", us) : us \in SUBSET Teammates \ {{}}}

SpecParty == Init /\ [][ReadSeenLogline(PartyListEvents)]_vars

(* SpecFastForward: fast_forward_state and process_loglines reading the same
   lines, round by round, on two controllers that start out the same *)

\* "[CHAT] You are now nicked as AmazingNick!"
NickLine(nick) == Line("CHAT", <<"You are now nicked as", nick>>, <<>>)

FastForwardLines == LogLines \cup {NickLine(n) : n \in Nicks}

FastForwardBatches ==
    UNION {[1..n -> FastForwardLines] : n \in 0..MaxLines}

\* the states the two start from: nothing known, and a lobby in queue
FastForwardStarts ==
    {EmptyState,
     [EmptyState EXCEPT !.own_username = "A", !.lobby_players = {"A", "B"},
                        !.alive_players = {"A", "B"}, !.in_queue = TRUE]}

\* fast_forward_state passing over the chat lines as well
fast_forward_state_SkipsChat(ff, line) ==
    LET event == parse_logline(line)
    IN IF event = NoEvent \/ line.channel = "CHAT" THEN ff
       ELSE [ff EXCEPT !.state = process_event(ff.state, event).state]

\* one round of the loop of fast_forward_state: the state process_event
\* returns is kept, redraw is dropped; set_nickname, when process_event
\* calls it, sets the redraw event
fast_forward_state(ff, line) ==
    LET event == parse_logline(line)
        c == set_nickname_call(ff.state, event, long_term_cache,
                               api_key_invalid, autodenick_teammates)
    IN IF event = NoEvent THEN ff
       ELSE [state |-> process_event(ff.state, event).state,
             redraw_event |-> ff.redraw_event \/ c.call]

\* the next line read by both
ReadBoth ==
    /\ lines_read < Len(loglines)
    /\ fast_forward' = fast_forward_state(fast_forward, loglines[lines_read + 1])
    /\ process_loglines
    /\ UNCHANGED <<new_limit, new_window, new_result, assignments, failed,
                   nickVars, lockVars, sort_call, redraw_call, seen,
                   notices, drawn, log_call>>

InitFastForward ==
    /\ \E lines \in FastForwardBatches, s \in FastForwardStarts :
            InitController(lines, s, EmptyCache, FALSE, TRUE)
    /\ InitThreads
    /\ new_limit = limit
    /\ new_window = window

SpecFastForward == InitFastForward /\ [][ReadBoth]_vars

-----------------------------------------------------------------------------
(* SpecAutodenick: START_BEDWARS_GAME read in a lobby of eight, or of seven *)

\* a full lobby of eight: the own user, six other players and one nick
FullLobby == LobbyUsernames \cup MorePlayers \cup Nicks

\* the lobbies START_BEDWARS_GAME is read in
AutodenickLobbies == {FullLobby, FullLobby \ {"B"}}

\* the parties of the own user: teammates in the lobby and missing from it
AutodenickParties == {{"A"}, {"A", "T"}, {"A", "T", "U"}, {"A", "B", "T"}}

\* what the long-term cache may hold for a name
CacheEntries == {Missing, "Pending", "Known", "Nicked"}

\* process_loglines on a live log, with the set_nickname calls kept
ReadDenickLogline(evs) ==
    \E e \in evs :
        LET c == set_nickname_call(state, e, long_term_cache, api_key_invalid,
                                   autodenick_teammates)
        IN /\ ApplyEvent(e, TRUE)
           /\ assignments' = IF c.call
                              THEN Append(assignments, <<c.username, c.nick>>)
                              ELSE assignments
           /\ UNCHANGED <<redraw_sets, loglines, lines_read, prev_lobby, marks>>
           /\ UNCHANGED <<fetchVars, limVars, new_limit, new_window,
                          new_result, failed, nickVars, lockVars, callVars>>

\* the line that starts the game
AutodenickEvents == {Plain("START_BEDWARS_GAME")}

\* the controller in a lobby whose players have been looked up: every player
\* is known, but for the nick "N" and the player "G", whose entries are any;
\* the game has not started
InitAutodenick ==
    /\ \E lobby \in AutodenickLobbies, party \in AutodenickParties,
          dead \in SUBSET {"C"}, n_entry, g_entry \in CacheEntries,
          queued, unsynced, invalid, autodenick \in BOOLEAN :
            InitController(
                <<>>,
                [own_username |-> "A", party_members |-> party,
                 lobby_players |-> lobby, alive_players |-> lobby \ dead,
                 in_queue |-> queued, out_of_sync |-> unsynced],
                [id \in Identities |->
                    CASE id = "N" -> n_entry
                      [] id = "G" -> g_entry
                      [] id \in lobby -> "Known"
                      [] OTHER -> Missing],
                invalid, autodenick)
    /\ last_event \notin AutodenickEvents
    /\ InitThreads
    /\ new_limit = limit
    /\ new_window = window

NextAutodenick == ReadDenickLogline(AutodenickEvents)

SpecAutodenick == InitAutodenick /\ [][NextAutodenick]_vars

-----------------------------------------------------------------------------
(* The stats-fetch pipeline (examples/overlay/threading.py) *)

\* most calls evicting cache entries in one run
MaxEvictions == 1

\* "with state.mutex:" can be entered when no thread holds the lock
can_lock_Always(m) == TRUE

can_lock(m) == m = None

\* "if cached_stats is None": no query made for this player yet
needs_fetch(cached) == cached = Missing

\* PlayerCache.set_player_pending
set_player_pending(cache, id) == [cache EXCEPT ![id] = "Pending"]

\* PlayerCache.set_cached_player
set_cached_player(cache, id, player) == [cache EXCEPT ![id] = player]

\* what get_bedwars_stats ends in: the player it caches, or an exception
FetchOutcomes == {"Known", "Nicked", "Raised"}

RECURSIVE CountIn(_, _)
CountIn(q, id) ==
    IF q = <<>> THEN 0
    ELSE (IF Head(q) = id THEN 1 ELSE 0) + CountIn(Tail(q), id)

\* downloads of id a stats thread is busy with
InFlight(id) ==
    Cardinality({w \in Workers : worker_pc[w] = "fetch" /\ worker_job[w] = id})

\* downloads of id requested and not finished: queued or in flight
Outstanding(id) == CountIn(requested_stats_queue, id) + InFlight(id)

\* should_redraw: take over and clear the redraw event, under state.mutex
PollStart(p) ==
    /\ poll_pc[p] = "idle"
    /\ can_lock(mutex)
    /\ poll_redraw' = [poll_redraw EXCEPT ![p] = redraw_event]
    /\ redraw_event' = FALSE
    /\ poll_pc' = [poll_pc EXCEPT ![p] = "drain"]
    /\ UNCHANGED <<state, wants_shown, redraw_sets, known_nicks,
                   stored_settings,
                   default_database, player_cache, long_term_cache,
                   api_key_invalid, autodenick_teammates, last_event,
                   last_redraw, loglines, lines_read, after_swap, prev_lobby,
                   marks>>
    /\ UNCHANGED <<hypixel_api_key,
                   settings_hypixel_api_key, mutex, requested_stats_queue,
                   completed_stats_queue, poll_popped, poll_todo, poll_cur,
                   worker_pc, worker_job, pendings, requests, looked_up,
                   evictions, evicted>>
    /\ UNCHANGED <<limVars, auxVars>>

\* should_redraw: completed_stats_queue.get_nowait(); on queue.Empty the loop
\* ends and get_stat_list returns None unless redraw
PollDrain(p) ==
    /\ poll_pc[p] = "drain"
    /\ IF completed_stats_queue = <<>>
       THEN /\ poll_pc' = [poll_pc EXCEPT
                              ![p] = IF poll_redraw[p] THEN "enter" ELSE "idle"]
            /\ UNCHANGED <<completed_stats_queue, poll_popped>>
       ELSE /\ poll_popped' = [poll_popped EXCEPT
                                  ![p] = Head(completed_stats_queue)]
            /\ completed_stats_queue' = Tail(completed_stats_queue)
            /\ poll_pc' = [poll_pc EXCEPT ![p] = "lookup"]
    /\ UNCHANGED memVars
    /\ UNCHANGED <<hypixel_api_key,
                   settings_hypixel_api_key, mutex, requested_stats_queue, poll_redraw,
                   poll_todo, poll_cur, worker_pc, worker_job, pendings,
                   requests, looked_up, evictions, evicted>>
    /\ UNCHANGED <<limVars, auxVars>>

\* should_redraw: "if username in state.lobby_players", under state.mutex
PollLookup(p) ==
    /\ poll_pc[p] = "lookup"
    /\ can_lock(mutex)
    /\ poll_redraw' = [poll_redraw EXCEPT
                          ![p] = @ \/ poll_popped[p] \in state.lobby_players]
    /\ poll_popped' = [poll_popped EXCEPT ![p] = None]
    /\ poll_pc' = [poll_pc EXCEPT ![p] = "drain"]
    /\ UNCHANGED memVars
    /\ UNCHANGED <<hypixel_api_key,
                   settings_hypixel_api_key, mutex, requested_stats_queue,
                   completed_stats_queue, poll_todo, poll_cur, worker_pc,
                   worker_job, pendings, requests, looked_up, evictions,
                   evicted>>
    /\ UNCHANGED <<limVars, auxVars>>

\* get_stat_list: "with state.mutex: for player in state.lobby_players"
PollEnter(p) ==
    /\ poll_pc[p] = "enter"
    /\ can_lock(mutex)
    /\ mutex' = p
    /\ poll_todo' = [poll_todo EXCEPT ![p] = state.lobby_players]
    /\ poll_pc' = [poll_pc EXCEPT ![p] = "loop"]
    /\ UNCHANGED memVars
    /\ UNCHANGED <<hypixel_api_key,
                   settings_hypixel_api_key, requested_stats_queue,
                   completed_stats_queue, poll_redraw, poll_popped, poll_cur,
                   worker_pc, worker_job, pendings, requests, looked_up,
                   evictions, evicted>>
    /\ UNCHANGED <<limVars, auxVars>>

\* get_stat_list: cached_stats = get_cached_stats(player)
PollCheck(p) ==
    /\ poll_pc[p] = "loop"
    /\ \E player \in poll_todo[p] :
         /\ poll_todo' = [poll_todo EXCEPT ![p] = @ \ {player}]
         /\ looked_up' = [looked_up EXCEPT ![p] = @ \cup {player}]
         /\ IF needs_fetch(player_cache[player])
            THEN /\ poll_cur' = [poll_cur EXCEPT ![p] = player]
                 /\ poll_pc' = [poll_pc EXCEPT ![p] = "mark"]
            ELSE UNCHANGED <<poll_cur, poll_pc>>
    /\ UNCHANGED memVars
    /\ UNCHANGED <<hypixel_api_key,
                   settings_hypixel_api_key, mutex, requested_stats_queue,
                   completed_stats_queue, poll_redraw, poll_popped, worker_pc,
                   worker_job, pendings, requests, evictions, evicted>>
    /\ UNCHANGED <<limVars, auxVars>>

\* get_stat_list: set_player_pending(player); requested_stats_queue.put(player)
put_request(p) ==
    /\ poll_pc[p] = "mark"
    /\ player_cache' = set_player_pending(player_cache, poll_cur[p])
    /\ pendings' = [pendings EXCEPT ![poll_cur[p]] = @ + 1]
    /\ requested_stats_queue' = Append(requested_stats_queue, poll_cur[p])
    /\ requests' = [requests EXCEPT ![poll_cur[p]] = @ + 1]
    /\ poll_cur' = [poll_cur EXCEPT ![p] = None]
    /\ poll_pc' = [poll_pc EXCEPT ![p] = "loop"]
    /\ UNCHANGED <<state, wants_shown, redraw_event, redraw_sets, known_nicks,
                   stored_settings,
                   default_database, long_term_cache, api_key_invalid,
                   autodenick_teammates, last_event, last_redraw, loglines,
                   lines_read, after_swap, prev_lobby, marks>>
    /\ UNCHANGED <<hypixel_api_key,
                   settings_hypixel_api_key, mutex, completed_stats_queue, poll_redraw,
                   poll_popped, poll_todo, worker_pc, worker_job, looked_up,
                   evictions, evicted>>
    /\ UNCHANGED <<limVars, new_limit, new_window, new_result, assignments,
                   nickVars, lockVars, callVars>>

PollMark(p) == put_request(p) /\ UNCHANGED failed

\* PollMark, with the username taken off the failed downloads
PollMarkRetry(p) == put_request(p) /\ failed' = failed \ {poll_cur[p]}

\* get_stat_list: the loop is over; sort, return and leave state.mutex
PollReturn(p) ==
    /\ poll_pc[p] = "loop"
    /\ poll_todo[p] = {}
    /\ mutex' = None
    /\ poll_redraw' = [poll_redraw EXCEPT ![p] = FALSE]
    /\ poll_pc' = [poll_pc EXCEPT ![p] = "idle"]
    /\ UNCHANGED memVars
    /\ UNCHANGED <<hypixel_api_key,
                   settings_hypixel_api_key, requested_stats_queue,
                   completed_stats_queue, poll_popped, poll_todo, poll_cur,
                   worker_pc, worker_job, pendings, requests, looked_up,
                   evictions, evicted>>
    /\ UNCHANGED <<limVars, auxVars>>

get_stat_list(p) ==
    \/ PollStart(p)
    \/ PollDrain(p)
    \/ PollLookup(p)
    \/ PollEnter(p)
    \/ PollCheck(p)
    \/ PollMark(p)
    \/ PollReturn(p)

\* GetStatsThread.run: username = self.requests_queue.get()
WorkerGet(w) ==
    /\ worker_pc[w] = "idle"
    /\ requested_stats_queue # <<>>
    /\ worker_job' = [worker_job EXCEPT ![w] = Head(requested_stats_queue)]
    /\ requested_stats_queue' = Tail(requested_stats_queue)
    /\ worker_pc' = [worker_pc EXCEPT ![w] = "fetch"]
    /\ UNCHANGED memVars
    /\ UNCHANGED <<hypixel_api_key,
                   settings_hypixel_api_key, mutex, completed_stats_queue, poll_pc,
                   poll_redraw, poll_popped, poll_todo, poll_cur, pendings,
                   requests, looked_up, evictions, evicted>>
    /\ UNCHANGED <<limVars, auxVars>>

\* GetStatsThread.run: get_bedwars_stats(username) caches the player it
\* downloaded; an exception ends the thread
download(w) ==
    /\ worker_pc[w] = "fetch"
    /\ \E outcome \in FetchOutcomes :
         IF outcome = "Raised"
         THEN /\ worker_pc' = [worker_pc EXCEPT ![w] = "exited"]
              /\ worker_job' = [worker_job EXCEPT ![w] = None]
              /\ UNCHANGED <<player_cache, long_term_cache>>
         ELSE /\ player_cache' =
                    set_cached_player(player_cache, worker_job[w], outcome)
              /\ long_term_cache' =
                    set_cached_player(long_term_cache, worker_job[w], outcome)
              /\ worker_pc' = [worker_pc EXCEPT ![w] = "notify"]
              /\ UNCHANGED worker_job
    /\ UNCHANGED <<state, wants_shown, redraw_event, redraw_sets, known_nicks,
                   stored_settings,
                   default_database, api_key_invalid, autodenick_teammates,
                   last_event, last_redraw, loglines, lines_read, after_swap,
                   prev_lobby, marks>>
    /\ UNCHANGED <<hypixel_api_key,
                   settings_hypixel_api_key, mutex, requested_stats_queue,
                   completed_stats_queue, poll_pc, poll_redraw, poll_popped,
                   poll_todo, poll_cur, pendings, requests, looked_up,
                   evictions, evicted>>
    /\ UNCHANGED <<limVars, new_limit, new_window, new_result, assignments,
                   nickVars, lockVars, callVars>>

WorkerFetch(w) == download(w) /\ UNCHANGED failed

\* WorkerFetch, with the username kept when the download raised
WorkerFetchNoting(w) ==
    /\ download(w)
    /\ failed' = IF worker_pc'[w] = "exited"
                 THEN failed \cup {worker_job[w]}
                 ELSE failed

\* GetStatsThread.run: self.completed_queue.put(username)
WorkerNotify(w) ==
    /\ worker_pc[w] = "notify"
    /\ completed_stats_queue' = Append(completed_stats_queue, worker_job[w])
    /\ worker_job' = [worker_job EXCEPT ![w] = None]
    /\ worker_pc' = [worker_pc EXCEPT ![w] = "idle"]
    /\ UNCHANGED memVars
    /\ UNCHANGED <<hypixel_api_key,
                   settings_hypixel_api_key, mutex, requested_stats_queue, poll_pc,
                   poll_redraw, poll_popped, poll_todo, poll_cur, pendings,
                   requests, looked_up, evictions, evicted>>
    /\ UNCHANGED <<limVars, auxVars>>

GetStatsThread(w) ==
    \/ WorkerGet(w)
    \/ WorkerFetch(w)
    \/ WorkerNotify(w)

\* evicted, after a step that leaves the short-term tier as cache: one more
\* for every username that lost its entry while a download of it was outstanding
evicted_after(cache) ==
    [id \in Identities |->
        IF player_cache[id] # Missing /\ cache[id] = Missing
           /\ Outstanding(id) > 0
        THEN evicted[id] + 1
        ELSE evicted[id]]

\* one event of evs handled under state.mutex, and what it evicts counted
update_state(evs) ==
    /\ can_lock(mutex)
    /\ \E e \in evs :
         LET c == set_nickname_call(state, e, long_term_cache, api_key_invalid,
                                    autodenick_teammates)
         IN /\ c.call => evictions < MaxEvictions
            /\ ApplyEvent(e, TRUE)
            /\ evictions' = IF c.call THEN evictions + 1 ELSE evictions
            /\ evicted' = evicted_after(player_cache')
    /\ UNCHANGED <<redraw_sets, loglines, lines_read, prev_lobby, marks>>
    /\ UNCHANGED <<hypixel_api_key,
                   settings_hypixel_api_key, mutex, requested_stats_queue,
                   completed_stats_queue, poll_pc, poll_redraw, poll_popped,
                   poll_todo, poll_cur, worker_pc, worker_job, pendings,
                   requests, looked_up>>
    /\ UNCHANGED limVars

\* UpdateStateThread.run: one event of evs handled under state.mutex
UpdateState(evs) == update_state(evs) /\ UNCHANGED auxVars

\* set_hypixel_api_key handing the key to the controller and no further
set_hypixel_api_key_ControllerOnly(new_key) ==
    /\ evictions < MaxEvictions
    /\ hypixel_api_key' = new_key
    /\ api_key_invalid' = FALSE
    /\ stored_settings' = store_settings(known_nicks, settings_hypixel_api_key)
    /\ player_cache' = clear_cache(player_cache)
    /\ long_term_cache' = clear_cache(long_term_cache)
    /\ evictions' = evictions + 1
    /\ evicted' = evicted_after(player_cache')
    /\ UNCHANGED <<state, wants_shown, redraw_event, redraw_sets, known_nicks,
                   default_database, autodenick_teammates, last_event,
                   last_redraw, loglines, lines_read, after_swap, prev_lobby,
                   marks>>
    /\ UNCHANGED <<settings_hypixel_api_key, mutex, requested_stats_queue,
                   completed_stats_queue, poll_pc, poll_redraw, poll_popped,
                   poll_todo, poll_cur, worker_pc, worker_job, pendings,
                   requests, looked_up>>
    /\ UNCHANGED <<limVars, auxVars>>

\* set_hypixel_api_key(new_key, controller)
set_hypixel_api_key(new_key) ==
    /\ evictions < MaxEvictions
    /\ hypixel_api_key' = new_key
    /\ api_key_invalid' = FALSE
    /\ settings_hypixel_api_key' = new_key
    /\ stored_settings' = store_settings(known_nicks, new_key)
    /\ player_cache' = clear_cache(player_cache)
    /\ long_term_cache' = clear_cache(long_term_cache)
    /\ evictions' = evictions + 1
    /\ evicted' = evicted_after(player_cache')
    /\ UNCHANGED <<state, wants_shown, redraw_event, redraw_sets, known_nicks,
                   default_database, autodenick_teammates, last_event,
                   last_redraw, loglines, lines_read, after_swap, prev_lobby,
                   marks>>
    /\ UNCHANGED <<mutex, requested_stats_queue, completed_stats_queue,
                   poll_pc, poll_redraw, poll_popped, poll_todo, poll_cur,
                   worker_pc, worker_job, pendings, requests, looked_up>>
    /\ UNCHANGED <<limVars, auxVars>>

(* SpecRace: two threads in get_stat_list at once, no eviction *)

RaceEvents == {ByUsers("LOBBY_LIST", us) : us \in SUBSET Usernames \ {{}}}

NextRace ==
    \/ UpdateState(RaceEvents)
    \/ \E p \in Pollers : get_stat_list(p)
    \/ \E w \in Workers : GetStatsThread(w)

SpecRace == Init /\ [][NextRace]_vars

(* SpecWinstreak: the display thread, a stats thread running
   get_stats_and_winstreak, and the eviction of set_nickname *)

\* what get_bedwars_stats ends in, the known players with and without a
\* winstreak told apart
WinstreakOutcomes == FetchOutcomes \cup {"KnownMissingWinstreaks"}

\* the entries a download leaves in the cache
FetchedPlayers == {"Known", "KnownMissingWinstreaks", "Nicked"}

\* KnownPlayer.update_winstreaks: the estimate fills in what is missing
update_winstreaks(player) ==
    IF player = "KnownMissingWinstreaks" THEN "Known" ELSE player

\* PlayerCache.update_cached_player(alias, update): the entry of a known
\* player is replaced by its update, any other entry is left alone
update_cached_player(cache, alias) ==
    IF cache[alias] \in {"Known", "KnownMissingWinstreaks"}
    THEN [cache EXCEPT ![alias] = update_winstreaks(@)]
    ELSE cache

\* what the stats threads leave alone at every step
stats_frame ==
    /\ UNCHANGED <<state, wants_shown, redraw_event, redraw_sets, known_nicks,
                   stored_settings, default_database, api_key_invalid,
                   autodenick_teammates, last_event, last_redraw, loglines,
                   lines_read, after_swap, prev_lobby, marks>>
    /\ UNCHANGED <<hypixel_api_key, settings_hypixel_api_key, mutex,
                   requested_stats_queue, poll_pc, poll_redraw, poll_popped,
                   poll_todo, poll_cur, pendings, requests, looked_up,
                   evictions, evicted>>
    /\ UNCHANGED <<limVars, new_limit, new_window, new_result, assignments,
                   failed, nickVars, lockVars, sort_call, redraw_call,
                   fast_forward, seen, drawn, log_call>>

\* get_stats_and_winstreak: player = get_bedwars_stats(username, controller),
\* which caches the player; an exception ends the thread
StatsDownload(w) ==
    /\ worker_pc[w] = "fetch"
    /\ \E outcome \in WinstreakOutcomes :
         IF outcome = "Raised"
         THEN /\ worker_pc' = [worker_pc EXCEPT ![w] = "exited"]
              /\ worker_job' = [worker_job EXCEPT ![w] = None]
              /\ UNCHANGED <<player_cache, long_term_cache, notices>>
         ELSE /\ player_cache' =
                    set_cached_player(player_cache, worker_job[w], outcome)
              /\ long_term_cache' =
                    set_cached_player(long_term_cache, worker_job[w], outcome)
              /\ worker_pc' =
                    [worker_pc EXCEPT
                        ![w] = IF outcome = "KnownMissingWinstreaks"
                               THEN "put_missing" ELSE "put"]
              /\ notices' = [notices EXCEPT !.fetched[worker_job[w]] = @ + 1]
              /\ UNCHANGED worker_job
    /\ UNCHANGED completed_stats_queue
    /\ stats_frame

\* get_stats_and_winstreak: completed_queue.put(username), and
\* "if isinstance(player, KnownPlayer) and player.is_missing_winstreaks"
StatsPut(w) ==
    /\ worker_pc[w] \in {"put", "put_missing"}
    /\ completed_stats_queue' = Append(completed_stats_queue, worker_job[w])
    /\ notices' = [notices EXCEPT !.noticed[worker_job[w]] = @ + 1]
    /\ IF worker_pc[w] = "put_missing"
       THEN /\ worker_pc' = [worker_pc EXCEPT ![w] = "estimate"]
            /\ UNCHANGED worker_job
       ELSE /\ worker_pc' = [worker_pc EXCEPT ![w] = "idle"]
            /\ worker_job' = [worker_job EXCEPT ![w] = None]
    /\ UNCHANGED <<player_cache, long_term_cache>>
    /\ stats_frame

\* StatsEstimate putting its notice whatever get_estimated_winstreaks answers
StatsEstimate_AlwaysPuts(w) ==
    /\ worker_pc[w] = "estimate"
    /\ \E estimated \in BOOLEAN :
         IF estimated
         THEN /\ player_cache' =
                    update_cached_player(player_cache, worker_job[w])
              /\ long_term_cache' =
                    update_cached_player(long_term_cache, worker_job[w])
              /\ notices' = [notices EXCEPT !.backfilled[worker_job[w]] = @ + 1]
         ELSE UNCHANGED <<player_cache, long_term_cache, notices>>
    /\ worker_pc' = [worker_pc EXCEPT ![w] = "put_estimated"]
    /\ UNCHANGED <<worker_job, completed_stats_queue>>
    /\ stats_frame

\* get_stats_and_winstreak: controller.get_estimated_winstreaks(player.uuid);
\* MISSING_WINSTREAKS ends the call, an estimate is written to the entry of
\* every alias
StatsEstimate(w) ==
    /\ worker_pc[w] = "estimate"
    /\ \E estimated \in BOOLEAN :
         IF estimated
         THEN /\ player_cache' =
                    update_cached_player(player_cache, worker_job[w])
              /\ long_term_cache' =
                    update_cached_player(long_term_cache, worker_job[w])
              /\ notices' = [notices EXCEPT !.backfilled[worker_job[w]] = @ + 1]
              /\ worker_pc' = [worker_pc EXCEPT ![w] = "put_estimated"]
              /\ UNCHANGED worker_job
         ELSE /\ worker_pc' = [worker_pc EXCEPT ![w] = "idle"]
              /\ worker_job' = [worker_job EXCEPT ![w] = None]
              /\ UNCHANGED <<player_cache, long_term_cache, notices>>
    /\ UNCHANGED completed_stats_queue
    /\ stats_frame

\* get_stats_and_winstreak: completed_queue.put(username) for the estimate
StatsPutEstimated(w) ==
    /\ worker_pc[w] = "put_estimated"
    /\ completed_stats_queue' = Append(completed_stats_queue, worker_job[w])
    /\ notices' = [notices EXCEPT !.renoticed[worker_job[w]] = @ + 1]
    /\ worker_pc' = [worker_pc EXCEPT ![w] = "idle"]
    /\ worker_job' = [worker_job EXCEPT ![w] = None]
    /\ UNCHANGED <<player_cache, long_term_cache>>
    /\ stats_frame

get_stats_and_winstreak(w) ==
    \/ WorkerGet(w)
    \/ StatsDownload(w)
    \/ StatsPut(w)
    \/ StatsEstimate(w)
    \/ StatsPutEstimated(w)

\* UpdateState, with the usernames kept whose entry it evicts
UpdateStateEvicting(evs) ==
    /\ update_state(evs)
    /\ notices' =
          [notices EXCEPT
              !.evicted = @ \cup {id \in Identities :
                                    /\ player_cache[id] # Missing
                                    /\ player_cache'[id] = Missing}]
    /\ UNCHANGED <<new_limit, new_window, new_result, assignments, failed,
                   nickVars, lockVars, sort_call, redraw_call, fast_forward,
                   seen, drawn, log_call>>

WinstreakEvents ==
    {ByUsers("LOBBY_LIST", {"N"}),
     Ev("WHISPER_COMMAND_SET_NICK", "B", {}, "N", 0, 0)}

NextWinstreak ==
    \/ UpdateStateEvicting(WinstreakEvents)
    \/ get_stat_list("display1")
    \/ get_stats_and_winstreak("stats1")

SpecWinstreak == Init /\ [][NextWinstreak]_vars

(* SpecFetch: the display thread, a stats thread and the evictions *)

FetchEvents ==
    {ByUsers("LOBBY_LIST", {"A", "N"}),
     Ev("WHISPER_COMMAND_SET_NICK", "B", {}, "N", 0, 0)}

NextFetch ==
    \/ UpdateState(FetchEvents)
    \/ get_stat_list("display1")
    \/ GetStatsThread("stats1")
    \/ \E new_key \in NewKeys : set_hypixel_api_key(new_key)

SpecFetch == Init /\ [][NextFetch]_vars

(* SpecRetry: the display thread and both stats threads, the downloads that
   raised kept; the lobby is listed again and again, and nothing is evicted *)

RetryEvents == {ByUsers("LOBBY_LIST", {"A", "B"})}

NextRetry ==
    \/ UpdateState(RetryEvents)
    \/ PollStart("display1")
    \/ PollDrain("display1")
    \/ PollLookup("display1")
    \/ PollEnter("display1")
    \/ PollCheck("display1")
    \/ PollMarkRetry("display1")
    \/ PollReturn("display1")
    \/ \E w \in Workers : WorkerGet(w) \/ WorkerFetchNoting(w) \/ WorkerNotify(w)

SpecRetry == Init /\ [][NextRetry]_vars

(* SpecWindow: the threads of run_overlay (examples/overlay/output/overlay.py):
   the thread reading the log, the display thread polling get_stat_list, a
   stats thread, and the window calling back when it is minimized *)

\* set_not_in_queue writing the lobby as well
not_in_queue_ClearLobby(s) == clear_lobby(leave_queue(s))

\* set_not_in_queue: state.in_queue = False
not_in_queue(s) == [s EXCEPT !.in_queue = FALSE]

\* minimize_callback=set_not_in_queue: "with state.mutex: state.in_queue = False"
set_not_in_queue ==
    /\ can_lock(mutex)
    /\ state' = not_in_queue(state)
    /\ UNCHANGED <<wants_shown, redraw_event, redraw_sets, known_nicks,
                   stored_settings,
                   default_database, player_cache, long_term_cache,
                   api_key_invalid, autodenick_teammates, last_event,
                   last_redraw, loglines, lines_read, after_swap, prev_lobby,
                   marks>>
    /\ UNCHANGED <<fetchVars, limVars, auxVars>>

WindowEvents ==
    {Ev("LOBBY_JOIN", "A", {}, None, 1, 8),
     Ev("LOBBY_JOIN", "B", {}, None, 2, 8),
     ByUser("LOBBY_LEAVE", "B"),
     ByUsers("LOBBY_LIST", {"A", "B"}),
     Plain("LOBBY_SWAP"),
     Plain("START_BEDWARS_GAME")}

NextWindow ==
    \/ UpdateState(WindowEvents)
    \/ get_stat_list("display1")
    \/ GetStatsThread("stats1")
    \/ set_not_in_queue

SpecWindow == Init /\ [][NextWindow]_vars

(* SpecNick: set_nickname block by block, called by the thread reading the
   log between its events *)

\* the names the calls bind to a user
SetNicks == Nicks \cup {"G", "E"}

\* set_nickname: uuid = controller.get_uuid(username), before the blocks
NickBegin ==
    /\ nick_pc = "idle"
    /\ \E username \in Usernames \cup {None}, nick \in SetNicks :
         \E uuid \in get_uuid_results(username) :
            nick_call' = [username |-> username, nick |-> nick, uuid |-> uuid,
                          nicks |-> NoKnownNicks]
    /\ nick_pc' = "settings"
    /\ UNCHANGED <<memVars, fetchVars, limVars>>
    /\ UNCHANGED <<new_limit, new_window, new_result, assignments, failed,
                   lockVars, callVars>>

\* set_nickname: "with controller.settings.mutex:", the known nicks updated
NickSettings ==
    /\ nick_pc = "settings"
    /\ known_nicks' =
           set_nickname(nick_call.username, nick_call.nick, nick_call.uuid,
                        known_nicks, default_database, player_cache,
                        long_term_cache).known_nicks
    /\ stored_settings' = store_settings(known_nicks', settings_hypixel_api_key)
    /\ nick_call' = [nick_call EXCEPT !.nicks = known_nicks]
    /\ nick_pc' = "database"
    /\ UNCHANGED <<state, wants_shown, redraw_event, redraw_sets,
                   default_database, player_cache, long_term_cache,
                   api_key_invalid, autodenick_teammates, last_event,
                   last_redraw, loglines, lines_read, after_swap, prev_lobby,
                   marks>>
    /\ UNCHANGED <<fetchVars, limVars>>
    /\ UNCHANGED <<new_limit, new_window, new_result, assignments, failed,
                   lockVars, callVars>>

\* the nick database block leaving the database alone when there is no uuid
NickDatabase_KeepsNick ==
    /\ nick_pc = "database"
    /\ default_database' =
           IF nick_call.uuid = None THEN default_database
           ELSE set_nickname(nick_call.username, nick_call.nick,
                             nick_call.uuid, nick_call.nicks, default_database,
                             player_cache, long_term_cache).default_database
    /\ nick_pc' = "uncache"
    /\ UNCHANGED <<state, wants_shown, redraw_event, redraw_sets, known_nicks,
                   stored_settings, player_cache, long_term_cache,
                   api_key_invalid, autodenick_teammates, last_event,
                   last_redraw, loglines, lines_read, after_swap, prev_lobby,
                   marks>>
    /\ UNCHANGED <<fetchVars, limVars>>
    /\ UNCHANGED <<new_limit, new_window, new_result, assignments, failed,
                   nick_call, lockVars, callVars>>

\* set_nickname: "with controller.nick_database.mutex:", the default database
\* updated, old_nick being what the settings block found
NickDatabase ==
    /\ nick_pc = "database"
    /\ default_database' =
           set_nickname(nick_call.username, nick_call.nick, nick_call.uuid,
                        nick_call.nicks, default_database, player_cache,
                        long_term_cache).default_database
    /\ nick_pc' = "uncache"
    /\ UNCHANGED <<state, wants_shown, redraw_event, redraw_sets, known_nicks,
                   stored_settings,
                   player_cache, long_term_cache, api_key_invalid,
                   autodenick_teammates, last_event, last_redraw, loglines,
                   lines_read, after_swap, prev_lobby, marks>>
    /\ UNCHANGED <<fetchVars, limVars>>
    /\ UNCHANGED <<new_limit, new_window, new_result, assignments, failed,
                   nick_call, lockVars, callVars>>

\* set_nickname: uncache_player(nick) alone
NickUncache_NewNickOnly ==
    /\ nick_pc = "uncache"
    /\ player_cache' = uncache_player(player_cache, nick_call.nick)
    /\ long_term_cache' = uncache_player(long_term_cache, nick_call.nick)
    /\ nick_pc' = "redraw"
    /\ UNCHANGED <<state, wants_shown, redraw_event, redraw_sets, known_nicks,
                   stored_settings, default_database, api_key_invalid,
                   autodenick_teammates, last_event, last_redraw, loglines,
                   lines_read, after_swap, prev_lobby, marks>>
    /\ UNCHANGED <<fetchVars, limVars>>
    /\ UNCHANGED <<new_limit, new_window, new_result, assignments, failed,
                   nick_call, lockVars, callVars>>

\* set_nickname: uncache_player(old_nick) and uncache_player(nick)
NickUncache ==
    /\ nick_pc = "uncache"
    /\ LET t == set_nickname(nick_call.username, nick_call.nick,
                             nick_call.uuid, nick_call.nicks, default_database,
                             player_cache, long_term_cache)
       IN /\ player_cache' = t.player_cache
          /\ long_term_cache' = t.long_term_cache
    /\ nick_pc' = "redraw"
    /\ UNCHANGED <<state, wants_shown, redraw_event, redraw_sets, known_nicks,
                   stored_settings, default_database, api_key_invalid,
                   autodenick_teammates, last_event, last_redraw, loglines,
                   lines_read, after_swap, prev_lobby, marks>>
    /\ UNCHANGED <<fetchVars, limVars>>
    /\ UNCHANGED <<new_limit, new_window, new_result, assignments, failed,
                   nick_call, lockVars, callVars>>

\* set_nickname: controller.redraw_event.set(), and the call returns
NickRedraw ==
    /\ nick_pc = "redraw"
    /\ redraw_event' = TRUE
    /\ nick_call' = NoNickCall
    /\ nick_pc' = "idle"
    /\ UNCHANGED <<state, wants_shown, redraw_sets, known_nicks,
                   stored_settings, default_database, player_cache,
                   long_term_cache, api_key_invalid, autodenick_teammates,
                   last_event, last_redraw, loglines, lines_read, after_swap,
                   prev_lobby, marks>>
    /\ UNCHANGED <<fetchVars, limVars>>
    /\ UNCHANGED <<new_limit, new_window, new_result, assignments, failed,
                   lockVars, callVars>>

\* a stats thread between two calls of set_nickname: get_bedwars_stats caches
\* the player it downloaded under one of the names the calls bind
CachePlayer ==
    /\ nick_pc = "idle"
    /\ \E id \in SetNicks :
         /\ player_cache[id] = Missing
         /\ player_cache' = set_cached_player(player_cache, id, "Nicked")
         /\ long_term_cache' = set_cached_player(long_term_cache, id, "Nicked")
    /\ UNCHANGED <<state, wants_shown, redraw_event, redraw_sets, known_nicks,
                   stored_settings, default_database, api_key_invalid,
                   autodenick_teammates, last_event, last_redraw, loglines,
                   lines_read, after_swap, prev_lobby, marks>>
    /\ UNCHANGED <<fetchVars, limVars, auxVars>>

NickEvents == {ByUsers("LOBBY_LIST", {"A", "N"})}

(* SpecApiKey: set_hypixel_api_key called with a new key, on a controller whose
   key may be flagged invalid and whose cache holds players; the log thread
   and a stats thread caching players run beside it *)

\* the keys handed to set_hypixel_api_key
ApiKeys == NewKeys \cup {"my-other-key"}

InitApiKey ==
    /\ \E invalid \in BOOLEAN, n_entry, g_entry \in CacheEntries :
            InitController(
                <<>>, EmptyState,
                [id \in Identities |->
                    CASE id = "N" -> n_entry
                      [] id = "G" -> g_entry
                      [] OTHER -> Missing],
                invalid, TRUE)
    /\ InitThreads
    /\ new_limit = limit
    /\ new_window = window

NextApiKey ==
    \/ \E new_key \in ApiKeys : set_hypixel_api_key(new_key)
    \/ CachePlayer
    \/ UpdateState(RaceEvents)

SpecApiKey == InitApiKey /\ [][NextApiKey]_vars

NextNick ==
    \/ NickBegin
    \/ NickSettings
    \/ NickDatabase
    \/ NickUncache
    \/ NickRedraw
    \/ CachePlayer
    \/ nick_pc = "idle" /\ UpdateState(NickEvents)

SpecNick == Init /\ [][NextNick]_vars

(* SpecSort: sort_players (prism/overlay/player.py) on every list of up to
   MaxPlayers players *)

\* longest list sorted
MaxPlayers == 3

\* largest stat of a known player
MaxStat == 2

\* float("-inf"), the stat of a player that is not known
MinusInf == 0 - 1

\* the place of a username in the order of strings
username_order ==
    [u \in {"A", "B", "C", "D", "N"} |->
        CASE u = "A" -> 1 [] u = "B" -> 2 [] u = "C" -> 3 [] u = "D" -> 4
          [] u = "N" -> 5]

KnownPlayer(username, stars) ==
    [type |-> "KnownPlayer", username |-> username, stars |-> stars,
     stats_hidden |-> FALSE]

NickedPlayer(nick) ==
    [type |-> "NickedPlayer", username |-> nick, stars |-> MinusInf,
     stats_hidden |-> TRUE]

PendingPlayer(username) ==
    [type |-> "PendingPlayer", username |-> username, stars |-> MinusInf,
     stats_hidden |-> FALSE]

\* the players of the lists: known ones, two of them with the same stars, a
\* nick and a pending player
SortablePlayers ==
    {KnownPlayer("A", 1), KnownPlayer("B", 1), KnownPlayer("C", MaxStat),
     NickedPlayer("N"), PendingPlayer("D")}

Columns == {"username", "stars"}

\* rate_player: (is_enemy, stats_hidden, stat)
rate_player(player, party_members, column) ==
    <<player.username \notin party_members,
      player.stats_hidden,
      IF player.type = "KnownPlayer"
      THEN (IF column = "username" THEN 0 ELSE player.stars)
      ELSE (IF column = "username" THEN 0 ELSE MinusInf)>>

\* False < True
BoolOrder(b) == IF b THEN 1 ELSE 0

\* the tuple of rate_player as a tuple of numbers
RatingOrder(k) == <<BoolOrder(k[1]), BoolOrder(k[2]), k[3]>>

\* k1 < k2 for tuples of numbers: the first place that differs decides
RECURSIVE TupleLess(_, _)
TupleLess(k1, k2) ==
    IF k1 = <<>> \/ k2 = <<>> THEN k1 = <<>> /\ k2 # <<>>
    ELSE \/ Head(k1) < Head(k2)
         \/ Head(k1) = Head(k2) /\ TupleLess(Tail(k1), Tail(k2))

RECURSIVE Reversed(_)
Reversed(xs) ==
    IF xs = <<>> THEN <<>> ELSE Append(Reversed(Tail(xs)), Head(xs))

\* x put into the sorted list behind every element whose key is not greater
RECURSIVE Inserted(_, _, _)
Inserted(x, xs, key) ==
    IF xs = <<>> THEN <<x>>
    ELSE IF TupleLess(key[x], key[Head(xs)]) THEN <<x>> \o xs
    ELSE <<Head(xs)>> \o Inserted(x, Tail(xs), key)

\* sorted(xs, key=key): a stable sort, elements of equal key keep the order
\* they came in
RECURSIVE StableSorted(_, _)
StableSorted(xs, key) ==
    IF xs = <<>> THEN <<>>
    ELSE Inserted(xs[Len(xs)],
                  StableSorted(SubSeq(xs, 1, Len(xs) - 1), key), key)

\* sorted(xs, key=key, reverse=True) without keeping elements of equal key in
\* order: the sorted list turned around
ReverseSorted_Unstable(xs, key) == Reversed(StableSorted(xs, key))

\* sorted(xs, key=key, reverse=True): the list is turned around, sorted and
\* turned around again, so that elements of equal key keep their order
ReverseSorted(xs, key) == Reversed(StableSorted(Reversed(xs), key))

\* sort_players(players, party_members, column)
sort_players(players, party_members, column) ==
    LET by_username ==
            [p \in SortablePlayers |-> <<username_order[p.username]>>]
        by_rating ==
            [p \in SortablePlayers |->
                RatingOrder(rate_player(p, party_members, column))]
    IN ReverseSorted(StableSorted(players, by_username), by_rating)

RECURSIVE ListsUpTo(_, _)
ListsUpTo(S, n) ==
    IF n = 0 THEN {<<>>}
    ELSE ListsUpTo(S, n - 1)
         \cup {Append(xs, x) : xs \in ListsUpTo(S, n - 1), x \in S}

\* a caller hands sort_players a list, the party and the column to sort by
SortCall ==
    /\ sort_call = NoSortCall
    /\ \E players \in ListsUpTo(SortablePlayers, MaxPlayers),
          party_members \in SUBSET {"A", "C", "N"}, column \in Columns :
         sort_call' = [players |-> players, party_members |-> party_members,
                       column |-> column, returned |-> FALSE, result |-> <<>>]
    /\ UNCHANGED <<memVars, fetchVars, limVars>>
    /\ UNCHANGED <<new_limit, new_window, new_result, assignments, failed,
                   nickVars, lockVars, redraw_call, fast_forward, seen,
                   notices, drawn, log_call>>

\* sort_players returns
SortReturn ==
    /\ ~sort_call.returned
    /\ sort_call' = [sort_call EXCEPT
                        !.returned = TRUE,
                        !.result = sort_players(sort_call.players,
                                                sort_call.party_members,
                                                sort_call.column)]
    /\ UNCHANGED <<memVars, fetchVars, limVars>>
    /\ UNCHANGED <<new_limit, new_window, new_result, assignments, failed,
                   nickVars, lockVars, redraw_call, fast_forward, seen,
                   notices, drawn, log_call>>

NextSort == SortCall \/ SortReturn

SpecSort == Init /\ [][NextSort]_vars

(* SpecRedraw: should_redraw (prism/overlay/behaviour.py) step by step, beside
   the thread reading the log and the stats threads reporting downloads *)

\* most usernames waiting on completed_stats_queue
MaxCompleted == 2

RedrawEvents ==
    {ByUsers("LOBBY_LIST", {"A"}), ByUsers("LOBBY_LIST", {"B"}),
     Plain("BEDWARS_GAME_STARTING_SOON")}

\* get_stats_and_winstreak: completed_queue.put(username)
put_completed ==
    /\ Len(completed_stats_queue) < MaxCompleted
    /\ \E username \in Usernames :
         completed_stats_queue' = Append(completed_stats_queue, username)
    /\ UNCHANGED memVars
    /\ UNCHANGED <<hypixel_api_key,
                   settings_hypixel_api_key, mutex, requested_stats_queue, poll_pc,
                   poll_redraw, poll_popped, poll_todo, poll_cur, worker_pc,
                   worker_job, pendings, requests, looked_up, evictions,
                   evicted>>
    /\ UNCHANGED <<limVars, auxVars>>

\* what should_redraw leaves alone at every step
should_redraw_frame ==
    /\ UNCHANGED <<state, wants_shown, redraw_sets, known_nicks,
                   stored_settings,
                   default_database, player_cache, long_term_cache,
                   api_key_invalid, autodenick_teammates, last_event,
                   last_redraw, loglines, lines_read, after_swap, prev_lobby,
                   marks>>
    /\ UNCHANGED <<hypixel_api_key,
                   settings_hypixel_api_key, mutex, requested_stats_queue, poll_pc,
                   poll_redraw, poll_popped, poll_todo, poll_cur, worker_pc,
                   worker_job, pendings, requests, looked_up, evictions,
                   evicted>>
    /\ UNCHANGED <<limVars, new_limit, new_window, new_result, assignments,
                   failed, nickVars, lockVars, sort_call, fast_forward,
                   seen, notices, drawn, log_call>>

\* should_redraw: redraw = controller.redraw_event.is_set()
RedrawIsSet ==
    /\ redraw_call.pc \in {"idle", "returned"}
    /\ redraw_call' = [NoRedrawCall EXCEPT
                          !.pc = "get",
                          !.redraw = redraw_event,
                          !.set_at_call = redraw_event,
                          !.queued_at_call = Len(completed_stats_queue)]
    /\ UNCHANGED <<redraw_event, completed_stats_queue>>
    /\ should_redraw_frame

\* should_redraw: completed_stats_queue.get_nowait(); queue.Empty ends the
\* loop; a username is looked up in the lobby only "if not redraw"
RedrawGet ==
    /\ redraw_call.pc = "get"
    /\ IF completed_stats_queue = <<>>
       THEN /\ redraw_call' = [redraw_call EXCEPT !.pc = "clear"]
            /\ UNCHANGED completed_stats_queue
       ELSE /\ completed_stats_queue' = Tail(completed_stats_queue)
            /\ redraw_call' =
                  [redraw_call EXCEPT
                      !.pc = IF redraw_call.redraw THEN "get" ELSE "check",
                      !.username = Head(completed_stats_queue),
                      !.queued_at_call = IF @ > 0 THEN @ - 1 ELSE 0,
                      !.in_lobby =
                          @ \/ (redraw_call.redraw
                                /\ Head(completed_stats_queue)
                                      \in state.lobby_players)]
    /\ UNCHANGED redraw_event
    /\ should_redraw_frame

\* should_redraw: "with controller.state.mutex: if username in
\* controller.state.lobby_players: redraw = True"
RedrawCheck ==
    /\ redraw_call.pc = "check"
    /\ can_lock(mutex)
    /\ redraw_call' =
          [redraw_call EXCEPT
              !.pc = "get",
              !.redraw = redraw_call.username \in state.lobby_players,
              !.in_lobby = redraw_call.username \in state.lobby_players]
    /\ UNCHANGED <<redraw_event, completed_stats_queue>>
    /\ should_redraw_frame

\* should_redraw returning without clearing the signal
RedrawReturn_NoClear ==
    /\ redraw_call.pc = "clear"
    /\ UNCHANGED redraw_event
    /\ redraw_call' = [redraw_call EXCEPT
                          !.pc = "returned", !.result = redraw_call.redraw]
    /\ UNCHANGED completed_stats_queue
    /\ should_redraw_frame

\* should_redraw clearing the signal whatever it returns
RedrawReturn_ClearsAlways ==
    /\ redraw_call.pc = "clear"
    /\ redraw_event' = FALSE
    /\ redraw_call' = [redraw_call EXCEPT
                          !.pc = "returned", !.result = redraw_call.redraw]
    /\ UNCHANGED completed_stats_queue
    /\ should_redraw_frame

\* should_redraw: "if redraw: controller.redraw_event.clear()", "return redraw"
RedrawReturn ==
    /\ redraw_call.pc = "clear"
    /\ redraw_event' = IF redraw_call.redraw THEN FALSE ELSE redraw_event
    /\ redraw_call' = [redraw_call EXCEPT
                          !.pc = "returned", !.result = redraw_call.redraw]
    /\ UNCHANGED completed_stats_queue
    /\ should_redraw_frame

should_redraw == RedrawIsSet \/ RedrawGet \/ RedrawCheck \/ RedrawReturn

NextRedraw ==
    \/ UpdateState(RedrawEvents)
    \/ put_completed
    \/ should_redraw

SpecRedraw == Init /\ [][NextRedraw]_vars

(* SpecDisplay: process_loglines in the thread reading the log, its
   assignment of controller.state and its redraw_event.set() apart, and the
   display thread calling should_redraw and building its list when that
   returns True *)

\* most transitions with redraw True that process_loglines applies
MaxTransitions == 3

\* process_loglines: controller.state, redraw = process_event(controller,
\* event)
LogAssign(evs) ==
    /\ drawn.pc = "idle"
    /\ drawn.applied < MaxTransitions
    /\ \E e \in evs :
         /\ ApplyEvent(e, FALSE)
         /\ drawn' = IF process_event(state, e).redraw
                     THEN [drawn EXCEPT !.pc = "set", !.applied = @ + 1]
                     ELSE drawn
    /\ UNCHANGED <<redraw_sets, loglines, lines_read, prev_lobby, marks>>
    /\ UNCHANGED <<fetchVars, limVars>>
    /\ UNCHANGED <<new_limit, new_window, new_result, assignments, failed,
                   nickVars, lockVars, sort_call, redraw_call, fast_forward,
                   seen, notices, log_call>>

\* process_loglines: "if redraw: controller.redraw_event.set()"
LogSet ==
    /\ drawn.pc = "set"
    /\ redraw_event' = TRUE
    /\ drawn' = [drawn EXCEPT !.pc = "idle"]
    /\ UNCHANGED <<state, wants_shown, redraw_sets, known_nicks,
                   stored_settings, default_database, player_cache,
                   long_term_cache, api_key_invalid, autodenick_teammates,
                   last_event, last_redraw, loglines, lines_read, after_swap,
                   prev_lobby, marks>>
    /\ UNCHANGED <<fetchVars, limVars>>
    /\ UNCHANGED <<new_limit, new_window, new_result, assignments, failed,
                   nickVars, lockVars, sort_call, redraw_call, fast_forward,
                   seen, notices, log_call>>

\* get_stat_list: redraw = should_redraw(...), called again once the call
\* before has returned False or its list is built
CallShouldRedraw ==
    /\ ~(redraw_call.pc = "returned" /\ redraw_call.result)
    /\ RedrawIsSet

\* get_stat_list after should_redraw returned True: "with state.mutex: for
\* player in state.lobby_players", the list built from the state of now
BuildList ==
    /\ redraw_call.pc = "returned"
    /\ redraw_call.result
    /\ can_lock(mutex)
    /\ drawn' = [drawn EXCEPT !.built = drawn.applied]
    /\ redraw_call' = NoRedrawCall
    /\ UNCHANGED <<memVars, fetchVars, limVars>>
    /\ UNCHANGED <<new_limit, new_window, new_result, assignments, failed,
                   nickVars, lockVars, sort_call, fast_forward, seen, notices,
                   log_call>>

NextDisplay ==
    \/ LogAssign(RedrawEvents)
    \/ LogSet
    \/ put_completed
    \/ CallShouldRedraw
    \/ RedrawGet
    \/ RedrawCheck
    \/ RedrawReturn
    \/ BuildList

SpecDisplay == Init /\ [][NextDisplay]_vars

(* SpecNetwork: the thread reading the log inside process_event, the lookup
   of set_nickname a step of its own *)

\* the thread reading the log, as the holder of state.mutex
LogThread == "log"

\* the username set_nickname looks up for event e, None when it looks up none
looked_up_username(e) ==
    LET c == set_nickname_call(state, e, long_term_cache, api_key_invalid,
                               autodenick_teammates)
    IN IF c.call THEN c.username ELSE None

\* what the thread reading the log leaves alone while it looks up
log_call_frame ==
    /\ UNCHANGED memVars
    /\ UNCHANGED <<hypixel_api_key, settings_hypixel_api_key,
                   requested_stats_queue, completed_stats_queue, poll_pc,
                   poll_redraw, poll_popped, poll_todo, poll_cur, worker_pc,
                   worker_job, pendings, requests, looked_up, evictions,
                   evicted>>
    /\ UNCHANGED <<limVars, new_limit, new_window, new_result, assignments,
                   failed, nickVars, lockVars, sort_call, redraw_call,
                   fast_forward, seen, notices, drawn>>

\* the thread takes state.mutex and calls process_event(controller, event);
\* set_nickname begins with "if username is not None"
ProcessBegin(evs) ==
    /\ log_call.pc = "idle"
    /\ can_lock(mutex)
    /\ mutex' = LogThread
    /\ \E e \in evs :
         log_call' = [pc |-> IF looked_up_username(e) # None
                             THEN "get_uuid" ELSE "process_event",
                      event |-> e,
                      uuid |-> None]
    /\ log_call_frame

\* set_nickname: uuid = controller.get_uuid(username), the lookup of the
\* account by its name at the remote service
GetUuid ==
    /\ log_call.pc = "get_uuid"
    /\ \E uuid \in get_uuid_results(looked_up_username(log_call.event)) :
         log_call' = [log_call EXCEPT !.pc = "process_event", !.uuid = uuid]
    /\ UNCHANGED mutex
    /\ log_call_frame

\* the rest of process_event with the uuid that was answered, the signal, and
\* state.mutex given back
ProcessEnd ==
    /\ log_call.pc = "process_event"
    /\ ApplyEventGiven(log_call.event, TRUE, {log_call.uuid})
    /\ mutex' = None
    /\ log_call' = NoLogCall
    /\ UNCHANGED <<redraw_sets, loglines, lines_read, prev_lobby, marks>>
    /\ UNCHANGED <<hypixel_api_key, settings_hypixel_api_key,
                   requested_stats_queue, completed_stats_queue, poll_pc,
                   poll_redraw, poll_popped, poll_todo, poll_cur, worker_pc,
                   worker_job, pendings, requests, looked_up, evictions,
                   evicted>>
    /\ UNCHANGED <<limVars, new_limit, new_window, new_result, assignments,
                   failed, nickVars, lockVars, sort_call, redraw_call,
                   fast_forward, seen, notices, drawn>>

NextNetwork ==
    \/ ProcessBegin(PartyListEvents)
    \/ GetUuid
    \/ ProcessEnd

SpecNetwork == Init /\ [][NextNetwork]_vars

(* SpecLocks: the with blocks of the thread reading the log, the settings
   page and the display thread, as the locks they take and give back *)

acquire(l) == [op |-> "acquire", lock |-> l]

release(l) == [op |-> "release", lock |-> l]

\* set_nickname: the settings block, the nick database block, uncache_player
set_nickname_locks ==
    <<acquire("settings"), release("settings"),
      acquire("nick_database"), release("nick_database"),
      acquire("cache"), release("cache")>>

\* UpdateStateThread.run: "with self.state.mutex:" around an event that calls
\* set_nickname (NEW_NICKNAME, autodenick_teammate), or around any other
update_state_locks ==
    {<<acquire("state"), release("state")>>,
     <<acquire("state")>> \o set_nickname_locks \o <<release("state")>>}

\* update_settings taking state.mutex inside the settings lock
update_settings_locks_StateInside ==
    <<acquire("settings"), acquire("state"), release("state"),
      release("settings")>>

\* update_settings, its caller holding the settings lock: uncache_player or
\* clear_cache, then the nick database block
update_settings_locks ==
    <<acquire("settings"), acquire("cache"), release("cache"),
      acquire("nick_database"), release("nick_database"),
      release("settings")>>

\* set_hypixel_api_key: the settings block, then clear_cache
set_hypixel_api_key_locks ==
    <<acquire("settings"), release("settings"),
      acquire("cache"), release("cache")>>

\* should_redraw: "with controller.state.mutex:"; get_stat_list: the cache
\* read and marked inside "with state.mutex:"
display_locks ==
    {<<acquire("state"), release("state")>>,
     <<acquire("state"), acquire("cache"), release("cache"),
       release("state")>>}

LockPrograms(t) ==
    CASE t = "update_state" -> update_state_locks
      [] t = "settings_page" ->
            {update_settings_locks, set_hypixel_api_key_locks}
      [] t = "display" -> display_locks

\* the thread comes to its next with blocks
LockBegin(t) ==
    /\ lock_pc[t].at > Len(lock_pc[t].ops)
    /\ \E ops \in LockPrograms(t) :
         lock_pc' = [lock_pc EXCEPT ![t] = [ops |-> ops, at |-> 1]]
    /\ UNCHANGED lock_owner

\* the operation the thread is at, a release when it is at none
NextLockOp(t) ==
    IF lock_pc[t].at <= Len(lock_pc[t].ops)
    THEN lock_pc[t].ops[lock_pc[t].at]
    ELSE release(None)

\* mutex.acquire(): the thread waits until the lock is free
LockAcquire(t) ==
    /\ NextLockOp(t).op = "acquire"
    /\ NextLockOp(t).lock # None
    /\ lock_owner[NextLockOp(t).lock] = None
    /\ lock_owner' = [lock_owner EXCEPT ![NextLockOp(t).lock] = t]
    /\ lock_pc' = [lock_pc EXCEPT ![t].at = @ + 1]

\* mutex.release(), at the end of the with block
LockRelease(t) ==
    /\ NextLockOp(t).op = "release"
    /\ NextLockOp(t).lock # None
    /\ lock_owner' = [lock_owner EXCEPT ![NextLockOp(t).lock] = None]
    /\ lock_pc' = [lock_pc EXCEPT ![t].at = @ + 1]

NextLocks ==
    /\ \E t \in LockThreads : LockBegin(t) \/ LockAcquire(t) \/ LockRelease(t)
    /\ UNCHANGED <<memVars, fetchVars, limVars>>
    /\ UNCHANGED <<new_limit, new_window, new_result, assignments, failed,
                   nickVars, callVars>>

SpecLocks == Init /\ [][NextLocks]_vars

-----------------------------------------------------------------------------
(* RateLimiter(limit, window): the constructor *)

\* largest parameter tried, and the least is its negative
MaxParameter == 5

Parameters == (0 - MaxParameter)..MaxParameter

\* __init__: the parameters are asserted, then the limiter is set up as at
\* time 0
RateLimiter_init_ZeroLimit(l, w) ==
    IF l >= 0 /\ w > 0
    THEN [raised |-> None,
          limiters |-> <<[limit |-> l, window |-> w,
                          made_requests |-> [i \in 1..l |-> 0 - w],
                          available_slots |-> l]>>]
    ELSE [raised |-> "AssertionError", limiters |-> <<>>]

RateLimiter_init(l, w) ==
    IF l >= 1 /\ w > 0
    THEN [raised |-> None,
          limiters |-> <<[limit |-> l, window |-> w,
                          made_requests |-> [i \in 1..l |-> 0 - w],
                          available_slots |-> l]>>]
    ELSE [raised |-> "AssertionError", limiters |-> <<>>]

\* limiter = RateLimiter(limit=new_limit, window=new_window)
Construct ==
    /\ new_result = <<>>
    /\ new_result' = <<RateLimiter_init(new_limit, new_window)>>
    /\ UNCHANGED <<new_limit, new_window, assignments, failed, nickVars,
                   lockVars, callVars>>
    /\ UNCHANGED <<memVars, fetchVars, limVars>>

(* SpecConstruct: the constructor on every pair of parameters *)

InitConstruct ==
    /\ InitWith(<<>>)
    /\ new_limit \in Parameters
    /\ new_window \in Parameters

SpecConstruct == InitConstruct /\ [][Construct]_vars

-----------------------------------------------------------------------------
(* The threads entering the RateLimiter *)

\* a call of __enter__ that has what it needs to go on
Due(c) ==
    \/ caller_pc[c] = "blocked" /\ available_slots > 0
    \/ caller_pc[c] = "sleeping" /\ wake_time(caller_old[c]) <= clock

\* time passes; with exact, as in the mocked time of the tests, no thread is
\* late: time stands still while a call of __enter__ can go on
Tick(exact) ==
    /\ clock < MaxTime
    /\ exact => \A c \in Callers : ~Due(c)
    /\ clock' = clock + 1
    /\ UNCHANGED <<made_requests, available_slots, caller_pc, caller_old,
                   late_request, grants, exits>>
    /\ UNCHANGED <<memVars, fetchVars, auxVars>>
    /\ UNCHANGED requested_at

\* __enter__ is called: the thread waits for a slot
call_enter(c) ==
    /\ caller_pc[c] = "idle"
    /\ caller_pc' = [caller_pc EXCEPT ![c] = "blocked"]
    /\ late_request' = (late_request \/ clock > 0)
    /\ UNCHANGED <<clock, made_requests, available_slots, caller_old, grants,
                   exits>>
    /\ UNCHANGED <<memVars, fetchVars, auxVars>>

\* a thread calls __enter__
Request(c) ==
    /\ call_enter(c)
    /\ UNCHANGED requested_at

\* the threads that are named before c
Earlier(c) ==
    CASE c = "c1" -> {}
      [] c = "c2" -> {"c1"}
      [] c = "c3" -> {"c1", "c2"}
      [] OTHER -> {"c1", "c2", "c3"}

\* Request, with the instant of the call kept; the threads are alike and are
\* named in the order of their calls
RequestAt(c) ==
    /\ \A d \in Earlier(c) : requested_at[d] >= 0
    /\ call_enter(c)
    /\ requested_at' = [requested_at EXCEPT ![c] = clock]

\* __enter__: take a slot and the oldest timestamp; sleep if it is too young
Acquire(c) ==
    /\ caller_pc[c] = "blocked"
    /\ available_slots > 0
    /\ available_slots' = available_slots - 1
    /\ caller_old' = [caller_old EXCEPT ![c] = Head(made_requests)]
    /\ made_requests' = Tail(made_requests)
    /\ IF wake_time(Head(made_requests)) <= clock
       THEN /\ caller_pc' = [caller_pc EXCEPT ![c] = "holding"]
            /\ grants' = Append(grants, clock)
       ELSE /\ caller_pc' = [caller_pc EXCEPT ![c] = "sleeping"]
            /\ UNCHANGED grants
    /\ UNCHANGED <<clock, late_request, exits>>
    /\ UNCHANGED <<memVars, fetchVars, auxVars>>
    /\ UNCHANGED requested_at

\* __enter__: the sleep is over and the with block begins
Wake(c) ==
    /\ caller_pc[c] = "sleeping"
    /\ wake_time(caller_old[c]) <= clock
    /\ caller_pc' = [caller_pc EXCEPT ![c] = "holding"]
    /\ grants' = Append(grants, clock)
    /\ UNCHANGED <<clock, made_requests, available_slots, caller_old,
                   late_request, exits>>
    /\ UNCHANGED <<memVars, fetchVars, auxVars>>
    /\ UNCHANGED requested_at

\* __exit__: record the time and give the slot back
Exit(c) ==
    /\ caller_pc[c] = "holding"
    /\ made_requests' = Append(made_requests, clock)
    /\ available_slots' = available_slots + 1
    /\ caller_pc' = [caller_pc EXCEPT ![c] = "done"]
    /\ exits' = Append(exits, clock)
    /\ UNCHANGED <<clock, caller_old, late_request, grants>>
    /\ UNCHANGED <<memVars, fetchVars, auxVars>>
    /\ UNCHANGED requested_at

RateLimiter(c) ==
    \/ Request(c)
    \/ Acquire(c)
    \/ Wake(c)
    \/ Exit(c)

(* SpecLimiter: the limiter under the exact clock of the tests *)

NextLimiter ==
    \/ Tick(TRUE)
    \/ \E c \in Callers : RateLimiter(c)

SpecLimiter == Init /\ [][NextLimiter]_vars

(* SpecLimiterThreads: the limiter under threads that may be late *)

NextLimiterThreads ==
    \/ Tick(FALSE)
    \/ \E c \in Callers : RateLimiter(c)

SpecLimiterThreads == Init /\ [][NextLimiterThreads]_vars

\* RateLimiter.block_duration_seconds: what the call of __enter__ that sleeps
\* has left to wait, 0 when none sleeps
block_duration_seconds_Next ==
    IF made_requests = <<>> \/ wake_time(Head(made_requests)) <= clock THEN 0
    ELSE wake_time(Head(made_requests)) - clock

block_duration_seconds ==
    LET left == {wake_time(caller_old[c]) - clock :
                    c \in {d \in Callers : caller_pc[d] = "sleeping"}}
                \cup {0}
    IN CHOOSE n \in left : \A k \in left : k <= n

\* RateLimiter.is_blocked
is_blocked == block_duration_seconds > 0

(* SpecLimiterWaits: SpecLimiter, with the instants of the calls kept *)

NextLimiterWaits ==
    \/ Tick(TRUE)
    \/ \E c \in Callers :
         \/ RequestAt(c)
         \/ Acquire(c)
         \/ Wake(c)
         \/ Exit(c)

SpecLimiterWaits == Init /\ [][NextLimiterWaits]_vars

-----------------------------------------------------------------------------
(* Properties of the membership state machine *)

AliveInLobby == state.alive_players \subseteq state.lobby_players

\* C1 (as amended): alive_players is a subset of lobby_players in every
\* reached state, except in the states between a BedwarsReconnect event and
\* the next event that replaces the lobby.
C1_AliveInLobbyUnlessReconnect == "mark_alive" \notin marks => AliveInLobby

\* C1 as stated: the exception is the states between a BedwarsFinalKill or
\* BedwarsDisconnect event and the next lobby-clearing event.
C1_AliveInLobbyUnlessDead == "mark_dead" \notin marks => AliveInLobby

\* a final kill took a lobby member out of alive_players, no reconnect since
C1_Witness ==
    /\ last_event.type = "BEDWARS_FINAL_KILL"
    /\ marks = {"mark_dead"}
    /\ last_event.username \in state.lobby_players
    /\ state.alive_players # state.lobby_players

JoinAccepted(e) == e.type = "LOBBY_JOIN" /\ e.player_cap >= 8

\* C2 (as amended): LobbySwap followed immediately by a LobbyJoin(identity,
\* reportedCount, capacity >= 8) yields lobby_players = {identity}.
C2_SwapThenAcceptedJoin ==
    (after_swap /\ JoinAccepted(last_event))
        => state.lobby_players = {last_event.username}

\* C2 as stated: any LobbyJoin after a LobbySwap, whatever its capacity.
C2_SwapThenAnyJoin ==
    (after_swap /\ last_event.type = "LOBBY_JOIN")
        => state.lobby_players = {last_event.username}

C2_Witness ==
    /\ after_swap
    /\ JoinAccepted(last_event)
    /\ last_event.player_count = 2
    /\ state.lobby_players = {last_event.username}
    /\ state.out_of_sync

\* the last event was an accepted LobbyJoin whose reported count was smaller
\* than the lobby with the joining identity added
JoinOverCounted ==
    /\ JoinAccepted(last_event)
    /\ last_event.player_count
         < Cardinality(prev_lobby \cup {last_event.username})

\* C3: an accepted LobbyJoin whose reportedCount is smaller than the lobby
\* size after adding identity leaves the lobby {identity} and
\* out_of_sync = (reportedCount # 1).
C3_OverCountedJoinResets ==
    JoinOverCounted =>
        /\ state.lobby_players = {last_event.username}
        /\ state.out_of_sync = (last_event.player_count # 1)

\* lobby {A,B,C}, join D with count 1: lobby {D}, in sync
C3_Witness ==
    /\ JoinOverCounted
    /\ prev_lobby = {"A", "B", "C"}
    /\ last_event.username = "D"
    /\ last_event.player_count = 1
    /\ state.lobby_players = {"D"}
    /\ ~state.out_of_sync

ThreeJoins ==
    <<JoinLine("A", 1, 16), JoinLine("B", 2, 16), JoinLine("C", 3, 16)>>

ThreeJoinsRead == loglines = ThreeJoins /\ lines_read = Len(ThreeJoins)

AfterThreeJoins ==
    /\ state.lobby_players = {"A", "B", "C"}
    /\ state.in_queue
    /\ ~state.out_of_sync
    /\ redraw_event
    /\ redraw_sets = 3

\* C4: process_loglines, from the empty state, on the lines
\* 'A joined (1/16)', 'B joined (2/16)', 'C joined (3/16)' ends with
\* lobby_players = {A,B,C}, in_queue, not out_of_sync, and the redraw signal
\* raised once per line (three times).
C4_ThreeJoins == ThreeJoinsRead => AfterThreeJoins

C4_Witness == ThreeJoinsRead /\ AfterThreeJoins

OwnLeftParty ==
    /\ last_event.type = "PARTY_LEAVE"
    /\ state.own_username # None
    /\ state.own_username \in last_event.usernames

ClearedParty(own) == IF own = None THEN {} ELSE {own}

\* C6: clear_party yields the party of just own_username (the empty party
\* when own_username is unset) whatever the previous party was, leaves all
\* other fields unchanged, and is idempotent; PARTY_DETACH returns it and
\* PARTY_ATTACH adds the joined party's owner to it.
C6_ClearParty ==
    [][/\ clear_party(state) =
            [state EXCEPT !.party_members = ClearedParty(state.own_username)]
       /\ clear_party(clear_party(state)) = clear_party(state)
       /\ last_event'.type = "PARTY_DETACH" =>
            state' = [state EXCEPT
                        !.party_members = ClearedParty(state.own_username)]
       /\ last_event'.type = "PARTY_ATTACH" =>
            state' = [state EXCEPT
                        !.party_members = ClearedParty(state.own_username)
                                            \cup {last_event'.username}]
      ]_vars

\* a detach with the own username set reduced the party to it
C6_Witness ==
    /\ last_event.type = "PARTY_DETACH"
    /\ state.own_username = "A"
    /\ state.party_members = {"A"}

-----------------------------------------------------------------------------
(* Properties of the stats-fetch pipeline *)

\* both display threads are in get_stat_list, past should_redraw
Racing == \A p \in Pollers : poll_pc[p] \in {"enter", "loop", "mark"}

\* C7: when several threads race on the check-then-mark sequence of
\* get_stat_list (get_cached_stats miss, then set_player_pending and put) for
\* the same username, exactly one pending player is created and exactly one
\* request is put on the queue for it: no username ever has more than one of
\* either, and it has one of each once a thread has looked it up and is past
\* the mark
C7_OneDispatchPerIdentity ==
    \A id \in Identities :
        /\ pendings[id] <= 1
        /\ requests[id] <= 1
        /\ \A p \in Pollers :
             id \in looked_up[p] /\ poll_cur[p] # id
                => pendings[id] = 1 /\ requests[id] = 1

\* both threads have raced through the loop and looked the same username up
C7_Witness ==
    /\ \A p \in Pollers : "A" \in looked_up[p]
    /\ \E p \in Pollers : poll_pc[p] = "loop" /\ poll_todo[p] = {}
    /\ \E p \in Pollers : poll_pc[p] = "enter"
    /\ pendings["A"] = 1

\* C8: in every reachable state of the pipeline made of get_stat_list, the
\* stats thread and the evictions of set_nickname and set_hypixel_api_key, no
\* username has more than one download outstanding (queued or in flight)
C8_OneOutstanding ==
    \A id \in Identities : Outstanding(id) <= 1

\* the pending marker alone keeps the downloads apart: a username has a second
\* download outstanding only after its entry was evicted during the first
OutstandingUnlessEvicted ==
    \A id \in Identities : Outstanding(id) <= 1 + evicted[id]

\* the nick is in the lobby, its entry was evicted during its download and
\* the display thread has requested it again
C8_Witness ==
    /\ evicted["N"] = 1
    /\ Outstanding("N") = 2

-----------------------------------------------------------------------------
(* Properties of the RateLimiter *)

\* C9: any two acquisitions that are limit positions apart in time order are
\* at least window apart, whatever the threads do and however late they are
C9_LimitApartWindowApart ==
    \A i \in 1..Len(grants) :
        i + limit <= Len(grants) => grants[i + limit] - grants[i] >= window

\* a third acquisition that began exactly a window after the first
C9_Witness ==
    /\ Len(grants) >= limit + 1
    /\ grants[limit + 1] - grants[1] = window

\* exactly three threads have called __enter__, all of them at t=0, and all
\* three have been let in
ThreeAtZero ==
    /\ Cardinality({c \in Callers : caller_pc[c] # "idle"}) = 3
    /\ ~late_request
    /\ Len(grants) = 3

Waiting(c) == caller_pc[c] \in {"blocked", "sleeping"} /\ ~Due(c)

\* acquisitions that began less than a window ago
RecentGrants == {i \in 1..Len(grants) : grants[i] > clock - window}

\* slots in use: taken and not given back, or given back less than a window
\* ago
BusySlots ==
    Cardinality({c \in Callers : caller_pc[c] \in {"sleeping", "holding"}})
    + Cardinality({i \in 1..Len(exits) : exits[i] > clock - window})

TestEntries ==
    /\ Cardinality({c \in Callers : requested_at[c] = 0}) = 2
    /\ \A c \in Callers : requested_at[c] \in {0 - 1, 0, 2, 10}
    /\ Cardinality({c \in Callers : requested_at[c] = 2}) <= 1
    /\ Cardinality({c \in Callers : requested_at[c] = 10}) <= 1
    /\ Len(exits) >= 2
    /\ exits[1] = 0
    /\ exits[2] = 2

\* C12: with limit=2 and window=10, after two entries at t=0 exited at t=0
\* and t=2, the entry requested at t=2 waits until a window after the oldest
\* exit and is granted at t=10, the entry requested at t=10 is granted at
\* t=12; while an entry sleeps block_duration_seconds is what it has left to
\* wait (8 at t=2, 2 at t=10) and is_blocked is true
C12_BlockedUntilOldestExitAges ==
    TestEntries =>
        /\ \A c \in Callers :
             caller_pc[c] = "sleeping" /\ ~Due(c)
                => /\ is_blocked
                   /\ requested_at[c] = 2 => block_duration_seconds = 10 - clock
                   /\ requested_at[c] = 10 => block_duration_seconds = 12 - clock
        /\ (\A c \in Callers : caller_pc[c] # "sleeping") => ~is_blocked
        /\ Len(grants) >= 3 => grants[3] = 10
        /\ Len(grants) >= 4 => grants[4] = 12

\* all four entries of the test have been let in
C12_Witness ==
    /\ TestEntries
    /\ \E c \in Callers : requested_at[c] = 2
    /\ \E c \in Callers : requested_at[c] = 10
    /\ grants = <<0, 0, 10, 12>>

\* the third entry at the instant it starts to sleep: 8 seconds left
C12_WitnessBlocked ==
    /\ TestEntries
    /\ clock = 2
    /\ block_duration_seconds = 8
    /\ is_blocked

\* the with block of c has begun
Granted(c) == caller_pc[c] \in {"holding", "done"}

C14_OnlyPositiveParameters ==
    new_result # <<>> =>
        IF new_limit <= 0 \/ new_window <= 0
        THEN /\ new_result[1].raised = "AssertionError"
             /\ new_result[1].limiters = <<>>
        ELSE /\ new_result[1].raised = None
             /\ Len(new_result[1].limiters) = 1
             /\ new_result[1].limiters[1].limit = new_limit
             /\ new_result[1].limiters[1].window = new_window

\* RateLimiter(limit=0, window=1) has failed
C14_Witness ==
    /\ new_limit = 0
    /\ new_window = 1
    /\ new_result # <<>>
    /\ new_result[1].raised = "AssertionError"

-----------------------------------------------------------------------------
(* Properties of the autodenick *)

\* the lobby players whose long-term cache entry is of the given kind
LobbyEntries(kind) == {p \in state.lobby_players : long_term_cache[p] = kind}

\* the party members that are not in the lobby
MissingTeammates == state.party_members \ state.lobby_players

\* the setting is on, the key is not flagged invalid, the state is in sync and
\* nobody has died: nothing but the lobby, the cache and the party decides
AutodenickEnabled ==
    /\ autodenick_teammates
    /\ ~api_key_invalid
    /\ ~state.out_of_sync
    /\ state.lobby_players = state.alive_players

\* C15: when START_BEDWARS_GAME triggers the autodenick in a lobby of size 8
\* with one teammate of the party missing from it, then with 7 known players
\* and 1 nicked player cached set_nickname is called exactly once, with that
\* teammate and that nick, and with 2 nicked players it is not called
C15_AssignsOnceInLobbyOfEight ==
    [][(/\ last_event'.type = "START_BEDWARS_GAME"
        /\ AutodenickEnabled
        /\ Cardinality(state.lobby_players) = 8
        /\ Cardinality(MissingTeammates) = 1)
       => /\ (Cardinality(LobbyEntries("Known")) = 7
               /\ Cardinality(LobbyEntries("Nicked")) = 1)
              => \E t \in MissingTeammates, n \in LobbyEntries("Nicked") :
                    assignments' = Append(assignments, <<t, n>>)
          /\ Cardinality(LobbyEntries("Nicked")) = 2
              => assignments' = assignments]_vars

\* read outside the queue, START_BEDWARS_GAME has bound the teammate "T" to
\* the nick "N"
C15_Witness ==
    /\ last_event.type = "START_BEDWARS_GAME"
    /\ assignments = << <<"T", "N">> >>
    /\ state.lobby_players = FullLobby
    /\ long_term_cache["G"] = "Known"

\* what autodenick_teammate asks for before it assigns
Unambiguous ==
    /\ ~api_key_invalid
    /\ ~state.in_queue
    /\ ~state.out_of_sync
    /\ Cardinality(MissingTeammates) = 1
    /\ Cardinality(state.lobby_players) \in {8, 12, 16}
    /\ state.lobby_players = state.alive_players
    /\ \A p \in state.lobby_players : long_term_cache[p] \in {"Known", "Nicked"}
    /\ Cardinality(LobbyEntries("Nicked")) = 1

C16_WitnessAmbiguous ==
    /\ last_event.type = "START_BEDWARS_GAME"
    /\ ~state.in_queue
    /\ long_term_cache["N"] = "Nicked"
    /\ long_term_cache["G"] = "Nicked"
    /\ assignments = <<>>

-----------------------------------------------------------------------------
(* Properties of the stats threads after a download that raised *)

\* C17: a stats thread never ends because of one failed download: whatever
\* its downloads came to, the thread is waiting for a request, downloading
\* or reporting, and so goes on to serve later requests
C17_WorkerNeverExits ==
    \A w \in Workers : worker_pc[w] \in {"idle", "fetch", "notify"}

\* the download of "A" raised and ended the thread stats1
C17_Witness ==
    /\ worker_pc["stats1"] = "exited"
    /\ failed = {"A"}
    /\ worker_pc["stats2"] = "idle"
    /\ requested_stats_queue = <<"B">>

\* C18: after the download of a username failed, a later run of get_stat_list
\* that comes to this username while it is in the lobby puts a new request
\* for it on the queue
C18_FailedFetchIsRetried ==
    [][\A p \in Pollers, id \in Identities :
          (/\ poll_pc[p] = "loop"
           /\ id \in poll_todo[p] \ poll_todo'[p]
           /\ id \in failed
           /\ id \in state.lobby_players)
          => poll_pc'[p] = "mark" /\ poll_cur'[p] = id]_vars

\* the download of "A" raised, the other stats thread is alive, and the
\* display thread is in get_stat_list again and about to look "A" up
C18_Witness ==
    /\ "A" \in failed
    /\ "A" \in state.lobby_players
    /\ player_cache["A"] = "Pending"
    /\ worker_pc["stats2"] = "idle"
    /\ poll_pc["display1"] = "loop"
    /\ "A" \in poll_todo["display1"]

-----------------------------------------------------------------------------
(* Properties of the writers of the state *)

\* the step is one of the thread reading the log: it handles an event, and
\* the state after it is what process_event makes of the state before it
LogThreadStep ==
    /\ state' = process_event(state, last_event').state
    /\ UNCHANGED <<poll_pc, worker_pc>>

\* the step writes in_queue = False and no other field of the state
MinimizeStep ==
    /\ state' = [state EXCEPT !.in_queue = FALSE]
    /\ UNCHANGED <<last_event, poll_pc, worker_pc>>

-----------------------------------------------------------------------------
(* Properties of set_nickname, block by block *)

\* C20: set_nickname updates settings.known_nicks and the default database
\* of the nick database as one: in no state that another thread can see does
\* one of the two hold a uuid for a nick that the other does not hold
C20_TablesUpdatedTogether ==
    \A n \in Identities : known_nicks[n].uuid = default_database[n]

\* between the two blocks: the nick "N" is bound to "A" in the known nicks
\* and not in the default database
C20_Witness ==
    /\ nick_pc = "database"
    /\ known_nicks["N"].uuid = "A"
    /\ default_database["N"] = None

\* once set_nickname has returned, the two tables hold the same
C20_AgreeAfterReturn ==
    nick_pc = "idle" => C20_TablesUpdatedTogether

-----------------------------------------------------------------------------
(* Properties of the locks *)

\* the order of the locks: state, settings, nick database, cache
LockRank ==
    [l \in Locks |->
        CASE l = "state" -> 0
          [] l = "settings" -> 1
          [] l = "nick_database" -> 2
          [] l = "cache" -> 3]

HeldLocks(t) == {l \in Locks : lock_owner[l] = t}

\* the lock the thread is about to take or waiting for
WantedLocks(t) ==
    IF NextLockOp(t).op = "acquire" THEN {NextLockOp(t).lock} ELSE {}

\* every thread of W waits for a lock that a thread of W holds
WaitForEachOther(W) ==
    \A t \in W : \E l \in WantedLocks(t) : lock_owner[l] \in W

\* C21: in every interleaving of the thread reading the log, the settings
\* page and the display thread, a thread that asks for a lock holds only
\* locks that come before it in the order state, settings, nick database,
\* cache; and no threads wait for each other (no deadlock)
C21_LocksInOrder ==
    /\ \A t \in LockThreads :
          \A l \in WantedLocks(t), h \in HeldLocks(t) :
              LockRank[h] < LockRank[l]
    /\ \A W \in SUBSET LockThreads : W # {} => ~WaitForEachOther(W)

\* the thread reading the log holds state.mutex and waits in set_nickname for
\* the settings lock, which the settings page holds while it asks for the
\* lock of the nick database; the display thread waits for state.mutex
C21_Witness ==
    /\ HeldLocks("update_state") = {"state"}
    /\ WantedLocks("update_state") = {"settings"}
    /\ HeldLocks("settings_page") = {"settings"}
    /\ WantedLocks("settings_page") = {"nick_database"}
    /\ WantedLocks("display") = {"state"}

-----------------------------------------------------------------------------
(* Properties of sort_players *)

\* how often x is in the list
RECURSIVE Occurrences(_, _)
Occurrences(xs, x) ==
    IF xs = <<>> THEN 0
    ELSE (IF Head(xs) = x THEN 1 ELSE 0) + Occurrences(Tail(xs), x)

\* C22: sort_players returns a permutation of its input, ordered by the key
\* (is_enemy, stats_hidden, stat) descending, players of equal key ascending
\* by username; so every party member comes after every player that is not
\* in the party, whatever the stats
C22_SortedByKeyThenUsername ==
    sort_call.returned =>
        LET out == sort_call.result
            key(p) == rate_player(p, sort_call.party_members, sort_call.column)
        IN /\ Len(out) = Len(sort_call.players)
           /\ \A x \in SortablePlayers :
                 Occurrences(out, x) = Occurrences(sort_call.players, x)
           /\ \A i, j \in 1..Len(out) :
                 i < j =>
                    /\ ~TupleLess(RatingOrder(key(out[i])),
                                  RatingOrder(key(out[j])))
                    /\ key(out[i]) = key(out[j]) =>
                          username_order[out[i].username]
                             <= username_order[out[j].username]
                    /\ out[i].username \in sort_call.party_members
                          => out[j].username \in sort_call.party_members

\* B, A and C sorted by stars with C in the party: A and B have the same
\* stars and come by name, C has more stars and comes last
C22_Witness ==
    /\ sort_call.returned
    /\ sort_call.column = "stars"
    /\ sort_call.party_members = {"C"}
    /\ sort_call.players =
          <<KnownPlayer("B", 1), KnownPlayer("C", MaxStat), KnownPlayer("A", 1)>>
    /\ sort_call.result =
          <<KnownPlayer("A", 1), KnownPlayer("B", 1), KnownPlayer("C", MaxStat)>>

-----------------------------------------------------------------------------
(* Properties of should_redraw *)

\* C23: should_redraw returns True exactly when the redraw event was set at
\* the call or a username it took off the completed queue was in
\* lobby_players; it has taken off every username that was on the queue at
\* the call; and when it returns True the redraw event is clear as it returns
C23_RedrawWhenSetOrInLobby ==
    [][(redraw_call.pc = "clear" /\ redraw_call'.pc = "returned")
       => /\ redraw_call'.result
                = (redraw_call.set_at_call \/ redraw_call.in_lobby)
          /\ redraw_call.queued_at_call = 0
          /\ redraw_call'.result => ~redraw_event']_vars

\* the event was set and a username of the lobby was on the queue: two
\* reasons, one redraw, and the event is clear
C23_Witness ==
    /\ redraw_call.pc = "returned"
    /\ redraw_call.result
    /\ redraw_call.set_at_call
    /\ redraw_call.in_lobby
    /\ ~redraw_event
    /\ completed_stats_queue = <<>>

\* no reason: the event was not set, the username taken off the queue was
\* not in the lobby, and should_redraw returned False
C23_WitnessNoRedraw ==
    /\ redraw_call.pc = "returned"
    /\ ~redraw_call.result
    /\ redraw_call.username # None
    /\ state.lobby_players # {}

-----------------------------------------------------------------------------
(* set_nickname, block by block (SpecNick) *)

\* the call sets the nick: get_uuid resolved the username
NickResolved == nick_call.uuid # None /\ nick_call.username # None

\* the settings block of the call is the step taken
SettingsBlock == nick_pc = "settings" /\ nick_pc' = "database"

\* the nick database block of the call is the step taken
DatabaseBlock == nick_pc = "database" /\ nick_pc' = "uncache"

\* store_settings has written the settings as they are in memory
SettingsStored ==
    /\ stored_settings.known_nicks = known_nicks
    /\ stored_settings.hypixel_api_key = settings_hypixel_api_key

\* C24: set_nickname(username, nick) with a uuid for username binds nick to
\* that uuid in settings.known_nicks and in the default database, removes
\* every other nick bound to that uuid from both, leaves the entries of the
\* other nicks, those bound to other uuids, as they were, and leaves the
\* stored settings equal to the settings in memory
C24_NickSetInBothTables ==
    [][NickResolved
       => /\ SettingsBlock
               => /\ known_nicks'[nick_call.nick].uuid = nick_call.uuid
                  /\ \A n \in Identities \ {nick_call.nick} :
                        known_nicks'[n] =
                            IF known_nicks[n].uuid = nick_call.uuid
                            THEN NoNickValue
                            ELSE known_nicks[n]
                  /\ SettingsStored'
          /\ DatabaseBlock
               => /\ default_database'[nick_call.nick] = nick_call.uuid
                  /\ known_nicks'[nick_call.nick].uuid = nick_call.uuid
                  /\ \A n \in Identities \ {nick_call.nick} :
                        default_database'[n] =
                            IF default_database[n] = nick_call.uuid
                            THEN None
                            ELSE default_database[n]
                  /\ SettingsStored']_vars

\* both blocks of a call that sets a nick are done: the user had another
\* nick, gone from both tables, and another user's nick is still in both
C24_Witness ==
    /\ nick_pc = "uncache"
    /\ NickResolved
    /\ known_nicks[nick_call.nick].uuid = nick_call.uuid
    /\ default_database[nick_call.nick] = nick_call.uuid
    /\ \E n \in Identities \ {nick_call.nick} :
         /\ nick_call.nicks[n].uuid = nick_call.uuid
         /\ known_nicks[n] = NoNickValue
         /\ default_database[n] = None
    /\ \E n \in Identities \ {nick_call.nick} :
         /\ known_nicks[n].uuid \notin {None, nick_call.uuid}
         /\ default_database[n] = known_nicks[n].uuid
    /\ SettingsStored

\* C25: set_nickname with username None, or with a username get_uuid has no
\* uuid for, unsets the nick: the nick is in neither table afterwards,
\* neither table has an entry it did not have, and the settings are stored
C25_NickUnsetInBothTables ==
    [][~NickResolved
       => /\ SettingsBlock
               => /\ known_nicks'[nick_call.nick] = NoNickValue
                  /\ \A n \in Identities \ {nick_call.nick} :
                        known_nicks'[n] = known_nicks[n]
                  /\ SettingsStored'
          /\ DatabaseBlock
               => /\ default_database'[nick_call.nick] = None
                  /\ known_nicks'[nick_call.nick] = NoNickValue
                  /\ \A n \in Identities \ {nick_call.nick} :
                        default_database'[n] = default_database[n]
                  /\ SettingsStored']_vars

\* both blocks of a call that unsets a nick are done: the nick was bound and
\* is in neither table, the uuid of the username was not found
C25_Witness ==
    /\ nick_pc = "uncache"
    /\ nick_call.username # None
    /\ nick_call.uuid = None
    /\ nick_call.nicks[nick_call.nick] # NoNickValue
    /\ known_nicks[nick_call.nick] = NoNickValue
    /\ default_database[nick_call.nick] = None
    /\ SettingsStored

\* old_nick of the call: the nick found for the uuid, or the nick to unset
OldNick ==
    IF NickResolved THEN NickOfUuid(nick_call.nicks, nick_call.uuid)
    ELSE nick_call.nick

\* the cache, both tiers, has no entry for id
Uncached(id) == player_cache[id] = Missing /\ long_term_cache[id] = Missing

\* C26: every call of set_nickname drops the cache entry of the new nick and,
\* when a nick is replaced or removed, that of the old nick, and then sets
\* the redraw event
C26_EvictsThenRedraws ==
    [][/\ (nick_pc = "uncache" /\ nick_pc' # "uncache")
           => /\ nick_pc' = "redraw"
              /\ Uncached(nick_call.nick)'
              /\ OldNick # None => Uncached(OldNick)'
              /\ \A id \in Identities \ {nick_call.nick, OldNick} :
                    /\ player_cache'[id] = player_cache[id]
                    /\ long_term_cache'[id] = long_term_cache[id]
       /\ (nick_pc = "redraw" /\ nick_pc' # "redraw")
           => /\ redraw_event'
              /\ Uncached(nick_call.nick)
              /\ OldNick # None => Uncached(OldNick)]_vars

\* the call replaces a nick whose stats were cached, as those of the new
\* nick were: both are dropped, a third entry is kept, the event is to be set
C26_Witness ==
    /\ nick_pc = "redraw"
    /\ OldNick \notin {None, nick_call.nick}
    /\ Uncached(nick_call.nick)
    /\ Uncached(OldNick)
    /\ \E id \in SetNicks : player_cache[id] # Missing

-----------------------------------------------------------------------------
(* set_hypixel_api_key (SpecApiKey) *)

\* the step is a call of set_hypixel_api_key: nothing else of SpecApiKey
\* counts an eviction
KeySet == evictions' = evictions + 1

\* C27: after set_hypixel_api_key(new_key) the key of the controller and the
\* key of the settings are new_key, the key is not flagged invalid, the
\* settings are stored, and the cache is empty
C27_KeySetStoredAndCacheCleared ==
    [][KeySet
       => /\ hypixel_api_key' \in ApiKeys
          /\ settings_hypixel_api_key' = hypixel_api_key'
          /\ stored_settings'.hypixel_api_key = hypixel_api_key'
          /\ SettingsStored'
          /\ ~api_key_invalid'
          /\ player_cache' = EmptyCache
          /\ long_term_cache' = EmptyCache]_vars

\* the key was flagged invalid and players were cached: the key is set and
\* stored, the flag is down and nothing is cached
C27_Witness ==
    /\ evictions = 1
    /\ hypixel_api_key = "my-new-key"
    /\ settings_hypixel_api_key = "my-new-key"
    /\ stored_settings.hypixel_api_key = "my-new-key"
    /\ ~api_key_invalid
    /\ player_cache = EmptyCache
    /\ long_term_cache = EmptyCache
    /\ state.lobby_players # {}

-----------------------------------------------------------------------------
(* LOBBY_JOIN in a lobby too small for bedwars (SpecLobby) *)

\* C30: a LOBBY_JOIN whose player cap is below 8 is ignored: process_event
\* returns the state it was given, every field the same, and redraw False,
\* and controller.wants_shown is what it was
C30_SmallLobbyJoinIgnored ==
    [][(last_event'.type = "LOBBY_JOIN" /\ last_event'.player_cap < 8)
       => /\ state' = state
          /\ ~last_redraw'
          /\ redraw_event' = redraw_event
          /\ wants_shown' = wants_shown]_vars

\* a join of a lobby of seven read out of queue with the user's preference
\* set: the player is not in the lobby, the queue is not joined, the
\* preference stands
C30_Witness ==
    /\ last_event.type = "LOBBY_JOIN"
    /\ last_event.player_cap < 8
    /\ last_event.username \notin state.lobby_players
    /\ state.lobby_players # {}
    /\ ~state.in_queue
    /\ wants_shown = "True"
    /\ ~last_redraw

-----------------------------------------------------------------------------
(* fast_forward_state beside process_loglines (SpecFastForward) *)

\* C28: whatever lines the two have read, fast_forward_state has left the
\* state process_loglines has left, the lines without an event skipped by both
C28_SameStateAsProcessLoglines == fast_forward.state = state

\* all the lines are read, one of them without an event, and the state is
\* not the one the two started from: who plays and who is in the lobby
C28_Witness ==
    /\ lines_read = MaxLines
    /\ Len(loglines) = MaxLines
    /\ \E i \in 1..MaxLines : parse_logline(loglines[i]) = NoEvent
    /\ state.own_username = "A"
    /\ state.lobby_players = {"B"}
    /\ fast_forward.state = state

\* C29: fast_forward_state never sets the redraw event
C29_FastForwardNeverRedraws == ~fast_forward.redraw_event

\* fast_forward_state has read who plays and the nick they were given:
\* the redraw event is set
C29_Witness ==
    /\ fast_forward.redraw_event
    /\ last_event.type = "NEW_NICKNAME"
    /\ fast_forward.state.own_username = "A"

-----------------------------------------------------------------------------
(* LOBBY_JOIN reporting more players than the lobby holds (SpecLobby) *)

\* the last event was an accepted LobbyJoin whose reported count was larger
\* than the lobby with the joining identity added
JoinUnderCounted ==
    /\ JoinAccepted(last_event)
    /\ last_event.player_count
         > Cardinality(prev_lobby \cup {last_event.username})

\* C31: an accepted LobbyJoin whose reportedCount exceeds the lobby size
\* after adding identity is not corrected: the lobby is the previous lobby
\* plus identity, out_of_sync and in_queue are true; and after every accepted
\* LobbyJoin out_of_sync = (reportedCount # |lobby_players|)
C31_UnderCountedJoinOnlyFlags ==
    /\ JoinUnderCounted =>
          /\ state.lobby_players = prev_lobby \cup {last_event.username}
          /\ state.out_of_sync
          /\ state.in_queue
    /\ JoinAccepted(last_event) =>
          state.out_of_sync
            = (last_event.player_count # Cardinality(state.lobby_players))

\* lobby {A}, join B with count 3: lobby {A,B}, out of sync, in queue
C31_Witness ==
    /\ JoinUnderCounted
    /\ prev_lobby = {"A"}
    /\ last_event.username = "B"
    /\ last_event.player_count = 3
    /\ state.lobby_players = {"A", "B"}
    /\ state.out_of_sync
    /\ state.in_queue

-----------------------------------------------------------------------------
(* in_queue and the queue signals (SpecQueue) *)

-----------------------------------------------------------------------------
(* LOBBY_LIST, INITIALIZE_AS and the in-game events, step by step *)

\* C33: LobbyList(identities) replaces lobby_players with the given set
\* whatever the lobby was, sets out_of_sync to false, leaves in_queue,
\* party_members and own_username as they were, and returns redraw True
C33_LobbyListReplacesLobby ==
    [][last_event'.type = "LOBBY_LIST"
       => /\ state'.lobby_players = last_event'.usernames
          /\ ~state'.out_of_sync
          /\ state'.in_queue = state.in_queue
          /\ state'.party_members = state.party_members
          /\ state'.own_username = state.own_username
          /\ last_redraw']_vars

\* a list read out of sync, in queue, in a party, replaced a lobby it
\* shares no player with
C33_Witness ==
    /\ last_event.type = "LOBBY_LIST"
    /\ last_event.usernames = {"B"}
    /\ state.lobby_players = {"B"}
    /\ ~state.out_of_sync
    /\ state.in_queue
    /\ state.party_members = {"A", "B"}
    /\ state.own_username = "A"
    /\ last_redraw

\* C34: InitializeAs(identity) from any state yields own_username =
\* identity, in_queue and out_of_sync false, an empty lobby and the party
\* cleared (nobody but identity), and returns redraw True
C34_InitializeAsResets ==
    [][last_event'.type = "INITIALIZE_AS"
       => /\ state'.own_username = last_event'.username
          /\ ~state'.in_queue
          /\ ~state'.out_of_sync
          /\ state'.lobby_players = {}
          /\ state'.alive_players = {}
          /\ state'.party_members = {last_event'.username}
          /\ last_redraw']_vars

\* the user is set: the lobby and queue of before are gone
C34_Witness ==
    /\ last_event.type = "INITIALIZE_AS"
    /\ state = [EmptyState EXCEPT !.own_username = "A",
                                  !.party_members = {"A"}]
    /\ last_redraw

\* C35: BedwarsFinalKill, BedwarsDisconnect and BedwarsReconnect change
\* alive_players only: the other fields are as they were, the player is not
\* in alive_players after a kill or a disconnect and is in it after a
\* reconnect
C35_GameEventsChangeAliveOnly ==
    [][last_event'.type \in {"BEDWARS_FINAL_KILL", "BEDWARS_DISCONNECT",
                             "BEDWARS_RECONNECT"}
       => /\ state' = [state EXCEPT !.alive_players = state'.alive_players]
          /\ state'.alive_players \ {last_event'.username}
                = state.alive_players \ {last_event'.username}
          /\ (last_event'.username \in state'.alive_players)
                = (last_event'.type = "BEDWARS_RECONNECT")
          /\ last_redraw']_vars

\* a player of the lobby disconnected: out of alive_players, in the lobby
C35_Witness ==
    /\ last_event.type = "BEDWARS_DISCONNECT"
    /\ last_event.username \in state.lobby_players
    /\ last_event.username \notin state.alive_players
    /\ state.alive_players # {}
    /\ state.in_queue

-----------------------------------------------------------------------------
(* START_BEDWARS_GAME read in queue (SpecAutodenick) *)

\* C36: when START_BEDWARS_GAME is read with the autodenick setting on and
\* in_queue still true, no nick is assigned; in every case the state
\* afterwards has in_queue false, the lobby and the party it had, and redraw
\* is False
C36_NoAutodenickInQueue ==
    [][last_event'.type = "START_BEDWARS_GAME"
       => /\ (autodenick_teammates /\ state.in_queue)
               => /\ assignments' = assignments
                  /\ known_nicks' = known_nicks
                  /\ default_database' = default_database
          /\ ~state'.in_queue
          /\ state'.lobby_players = state.lobby_players
          /\ state'.party_members = state.party_members
          /\ ~last_redraw']_vars

\* the game started in a full lobby with one nick and one teammate missing,
\* the setting on, and nothing is assigned: the state was in queue
C36_Witness ==
    /\ last_event.type = "START_BEDWARS_GAME"
    /\ autodenick_teammates
    /\ Unambiguous
    /\ assignments = <<>>
    /\ known_nicks = NoKnownNicks

-----------------------------------------------------------------------------
(* the answer to /party list (SpecParty) *)

\* C37: after PARTY_LIST_INCOMING and any number of PARTY_ROLE_LIST events
\* the party is exactly the own username (when set) and the usernames those
\* role lists gave; PARTY_LIST_INCOMING itself returns redraw False
C37_PartyIsWhatWasListed ==
    /\ seen.listing
        => state.party_members
               = ClearedParty(state.own_username) \cup seen.listed
    /\ last_event.type = "PARTY_LIST_INCOMING" => ~last_redraw

\* two role lists have been read since the report, and the own username is
\* in the party without having been listed
C37_Witness ==
    /\ seen.listing
    /\ last_event.type = "PARTY_ROLE_LIST"
    /\ Cardinality(seen.listed) >= 2
    /\ seen.listed # last_event.usernames
    /\ state.own_username # None
    /\ state.own_username \notin seen.listed
    /\ state.own_username \in state.party_members

-----------------------------------------------------------------------------
(* get_stats_and_winstreak and the display thread (SpecWinstreak) *)

\* stats threads between caching the player of id and the first notice
AboutToPut(id) ==
    Cardinality({w \in Workers : /\ worker_pc[w] \in {"put", "put_missing"}
                                  /\ worker_job[w] = id})

\* stats threads between writing the estimate of id and the second notice
AboutToPutEstimated(id) ==
    Cardinality({w \in Workers : /\ worker_pc[w] = "put_estimated"
                                  /\ worker_job[w] = id})

\* the usernames whose notice the display thread can see: on the completion
\* queue, or just taken off it
NoticesSeen ==
    {completed_stats_queue[i] : i \in 1..Len(completed_stats_queue)}
    \cup ({poll_popped[p] : p \in Pollers} \ {None})

\* the player is cached before the notice is put, every cached download gets
\* one notice, and one more follows exactly when an estimated winstreak was
\* written
NoticesFollowWrites ==
    \A id \in Identities :
        /\ notices.noticed[id] + AboutToPut(id) = notices.fetched[id]
        /\ notices.renoticed[id] + AboutToPutEstimated(id)
               = notices.backfilled[id]
        /\ notices.backfilled[id] <= notices.noticed[id]

\* C38 as claimed: whenever the display thread sees a notice, the downloaded
\* entry is in the cache
C38_NoticedEntryIsCached ==
    /\ NoticesFollowWrites
    /\ \A id \in NoticesSeen : player_cache[id] \in FetchedPlayers

\* C38: the player is cached before its notice is put, there is exactly one
\* notice per download and one more only after a winstreak was filled in, and
\* a display thread that sees the notice finds the downloaded entry in the
\* cache unless uncache_player has removed an entry of that username
C38_NoticedEntryIsCachedUnlessEvicted ==
    /\ NoticesFollowWrites
    /\ \A id \in NoticesSeen :
           player_cache[id] \in FetchedPlayers \/ id \in notices.evicted

\* the second notice of N has been put after its winstreak was filled in, and
\* the display thread takes a notice of N off the queue with N in the cache
C38_Witness ==
    /\ notices.renoticed["N"] = 1
    /\ notices.noticed["N"] = 1
    /\ poll_popped["display1"] = "N"
    /\ player_cache["N"] = "Known"
    /\ notices.evicted = {}

-----------------------------------------------------------------------------
(* no redraw lost between process_loglines and the display thread
   (SpecDisplay) *)

\* the call of should_redraw under way has redraw True, or has returned True
\* with its list still to build
RedrawUnderWay ==
    \/ redraw_call.pc \in {"get", "check", "clear"} /\ redraw_call.redraw
    \/ redraw_call.pc = "returned" /\ redraw_call.result

\* C39: while a transition with redraw True is applied that no list built so
\* far has seen, the redraw is still on its way: the signal is set or about to
\* be set, so that a call of should_redraw starting later returns True, or a
\* call that returns True has its list still to build, from the state of then
C39_NoRedrawLost ==
    drawn.built < drawn.applied
        => redraw_event \/ drawn.pc = "set" \/ RedrawUnderWay

\* a call that began with the signal clear has returned True for a download
\* and cleared the signal that a transition set in between; its list is
\* still to build
C39_Witness ==
    /\ drawn.built < drawn.applied
    /\ drawn.built > 0
    /\ drawn.pc = "idle"
    /\ ~redraw_event
    /\ redraw_call.pc = "returned"
    /\ redraw_call.result
    /\ ~redraw_call.set_at_call

-----------------------------------------------------------------------------
(* the lookup of set_nickname under state.mutex (SpecNetwork) *)

\* the thread reading the log is inside controller.get_uuid
InNetworkCall == log_call.pc = "get_uuid"

\* C40: while the thread reading the log holds state.mutex to process an
\* event, of whatever kind, it is never inside a call to the network
C40_NoNetworkUnderStateLock == mutex = LogThread => ~InNetworkCall

\* state.mutex is held by the thread reading the log exactly while it is
\* inside process_event, and it looks up a uuid for NEW_NICKNAME and
\* WHISPER_COMMAND_SET_NICK only
C40_LookupForNicknamesOnly ==
    /\ (mutex = LogThread) = (log_call.pc # "idle")
    /\ InNetworkCall
        => log_call.event.type \in {"NEW_NICKNAME", "WHISPER_COMMAND_SET_NICK"}

\* the nick N is read with the own username set: the thread holds state.mutex
\* and waits for the uuid of A
C40_Witness ==
    /\ mutex = LogThread
    /\ InNetworkCall
    /\ log_call.event.type = "NEW_NICKNAME"
    /\ state.own_username = "A"

====
